---- MODULE Spec2Model ----
(***************************************************************************)
(* Model of the payment-monitoring engine (src/src/AutoPaymentMonitor.js). *)
(*                                                                         *)
(* The engine runs on one JavaScript event loop: the code between two      *)
(* awaits is one atomic step.  The only real suspension point is the       *)
(* await of paymentService.checkPaymentStatus in checkSinglePayment, so a  *)
(* call of checkSinglePayment is two steps: the part before the await      *)
(* (checkSinglePaymentBegin) and the part after it                          *)
(* (checkSinglePaymentResume).  monitorInfo objects are passed by          *)
(* reference, so they live in a heap (objs) and the maps hold indices.     *)
(***************************************************************************)
EXTENDS Integers, Sequences, FiniteSets, TLC

\* Two md5 digests; a digest is a string, that is a sequence of characters.
Hashes == {<<"h", "1">>, <<"h", "2">>}
Sessions == {"s1", "s2"}

\* Bounds of the model: the clock, the monitorInfo objects, StatusChecker calls and
\* checkAllPayments loops that are alive at one time, and the largest checkCount an
\* entry is taken to, and the number of API calls the environment makes.
MaxTime == 2
MaxObjs == 2
MaxCalls == 2
MaxLoops == 2
MaxCheckCount == 2
MaxOps == 3

\* this.maxMonitorTime (30 minutes), in clock units of 30 minutes.
maxMonitorTime == 1

\* The statuses khqr.checkPayment can return, and a thrown error.
CheckerStatuses == {"PAID", "UNPAID"}
CheckerOutcomes == CheckerStatuses \cup {"threw"}

\* What the listeners of payment_success and payment_expired do with an event: return,
\* or throw an Error out of this.emit.
ListenerOutcomes == {"returns", "throws"}

VARIABLES
    isRunning,       \* this.isRunning
    activeMonitors,  \* Map md5Hash -> monitorInfo: sequence of [key, val], insertion order
    userSessions,    \* Map sessionId -> Set of md5Hash: function on the keys present
    paymentQueue,    \* Map md5Hash -> paymentData: function on the keys present
    objs,            \* heap of monitorInfo objects (slot -> object, NoObj when free)
    calls,           \* the StatusChecker calls in flight (slot -> call, NoCall when free)
    loops,           \* the checkAllPayments loops alive (slot -> "free", "timer", "awaiting")
    emitted,         \* the events the last step emitted, in order
    now,             \* Date.now()
    lastError,       \* the error the last step raised to its caller
    lastOp,          \* the API method the last step called ("none": a timer or a promise)
    ops,             \* the number of API calls made so far
    options,         \* the options object given to createQR
    encoded,         \* what createQR returned or threw
    activeTransactions,  \* PaymentService: Map transactionId -> result
    transactionHistory,  \* PaymentService: the array of results
    creating,        \* the createPayment calls that are at their awaits
    request,         \* the paymentData of the createPayment call of the last step
    rejection,       \* the error the createPayment call of the last step rejected with
    crcRun,          \* a generateCRC16 call: its data, loop indices, register and result
    monitoredPayments,   \* PaymentMonitor: the Set of md5 hashes being polled
    watches,         \* the PaymentMonitor.monitorPayment calls: interval, timer, checks
    polls            \* the PaymentService.monitorPayment calls: interval, promise, checks

vars == <<isRunning, activeMonitors, userSessions, paymentQueue, objs, calls,
          loops, emitted, now, lastError, lastOp, ops, options, encoded,
          activeTransactions, transactionHistory, creating, request, rejection, crcRun,
          monitoredPayments, watches, polls>>

\* The state of the pollers (PaymentMonitor and PaymentService.monitorPayment).
pollVars == <<monitoredPayments, watches, polls>>

----------------------------------------------------------------------------
\* JavaScript Map, as a sequence of [key, val] in insertion order.

MapKeys(m) == {m[i].key : i \in DOMAIN m}

MapHas(m, k) == k \in MapKeys(m)

MapIndex(m, k) == CHOOSE i \in DOMAIN m : m[i].key = k

MapGet(m, k) == m[MapIndex(m, k)].val

MapSet(m, k, v) ==
    IF MapHas(m, k) THEN [m EXCEPT ![MapIndex(m, k)].val = v]
    ELSE Append(m, [key |-> k, val |-> v])

MapDelete(m, k) == SelectSeq(m, LAMBDA e : e.key # k)

DropKey(f, k) == [x \in DOMAIN f \ {k} |-> f[x]]

PutKey(f, k, v) == [x \in DOMAIN f \cup {k} |-> IF x = k THEN v ELSE f[x]]

Min(S) == CHOOSE x \in S : \A y \in S : x <= y

----------------------------------------------------------------------------
\* Heap slots.  resolved is a history field of a monitorInfo: "no" until a
\* payment_success or payment_expired event is emitted for it, then the origin ("tick"
\* or "force") of the check that emitted the first one.

NoObj ==
    [md5Hash |-> <<>>, sessionId |-> "none", startTime |-> 0, lastCheck |-> 0,
     checkCount |-> 0, status |-> "none", resolved |-> "no"]

\* A call in flight: the monitorInfo it checks, the loop whose tick issued it (loop 0:
\* a force-check) and, as history, the checkCount it left on the monitorInfo (n = 1:
\* the first check of that entry).
NoCall == [md5Hash |-> <<>>, obj |-> 0, loop |-> 0, n |-> 0]

Origin(call) == IF call.loop = 0 THEN "force" ELSE "tick"

FreeObjs(st) == {o \in DOMAIN st.objs : st.objs[o] = NoObj}

FreeCalls(st) == {c \in DOMAIN st.calls : st.calls[c] = NoCall}

InFlight(cs, F) == {c \in DOMAIN cs : cs[c] # NoCall /\ cs[c].md5Hash = F}

Outstanding(cs, l) == {c \in DOMAIN cs : cs[c] # NoCall /\ cs[c].loop = l}

\* The object state the handlers work on, as one record, so that handlers compose.
\* full is set when a handler needed a slot (or a checkCount) beyond the bounds;
\* rejected is set when the promise of checkSinglePayment rejects; listener is what the
\* listeners do with the terminal events of this step.
State ==
    [am |-> activeMonitors, us |-> userSessions, pq |-> paymentQueue,
     objs |-> objs, calls |-> calls, emitted |-> <<>>, full |-> FALSE,
     rejected |-> FALSE, listener |-> "returns"]

Heard(ln) == [State EXCEPT !.listener = ln]

\* A monitorInfo no Map entry, no call in flight and no event just emitted refers to
\* is garbage: its slot is freed.
Reachable(st) ==
    {st.am[i].val : i \in DOMAIN st.am}
        \cup {st.calls[c].obj : c \in DOMAIN st.calls}
        \cup {st.emitted[i].obj : i \in DOMAIN st.emitted}

Collect(st) == [o \in DOMAIN st.objs |-> IF o \in Reachable(st) THEN st.objs[o] ELSE NoObj]

\* No createPayment call in this step, and no error out of one.
NoRequest == <<>>

NoRejection == [message |-> "none"]

\* Installing the monitor's new state.
InstallMonitor(st) ==
    /\ ~st.full
    /\ activeMonitors' = st.am
    /\ userSessions' = st.us
    /\ paymentQueue' = st.pq
    /\ objs' = Collect(st)
    /\ calls' = st.calls
    /\ emitted' = st.emitted

\* A step of the monitor on its own: it leaves the codec's and the service's
\* variables alone.
Install(st) ==
    /\ InstallMonitor(st)
    /\ UNCHANGED <<options, encoded, activeTransactions, transactionHistory, creating,
                   crcRun, pollVars>>
    /\ request' = NoRequest
    /\ rejection' = NoRejection

\* this.emit(type, {md5Hash, monitorInfo, result}): the event holds the monitorInfo by
\* reference, so a listener reads its checkCount as it is at emission.  origin is
\* history: the check ("tick" or "force") that emitted the event; threw tells that a
\* listener threw, which ends the emitting handler there and takes control to the catch
\* block of checkSinglePayment.
Emit(st, type, F, o, res, origin) ==
    [st EXCEPT !.emitted = Append(@, [type |-> type, md5Hash |-> F, obj |-> o,
                                       result |-> res, origin |-> origin,
                                       checkCount |-> st.objs[o].checkCount,
                                       threw |-> (type # "payment_added"
                                                  /\ st.listener = "throws")]),
               !.objs[o].resolved = IF type = "payment_added" \/ @ # "no" THEN @
                                    ELSE origin]

NoResult == [status |-> "none", call |-> 0]

\* Mutant: no early return, so reading the sessionId of an absent entry throws.
removePayment_Unguarded(st, F) ==
    IF ~MapHas(st.am, F) THEN [st EXCEPT !.rejected = TRUE]
    ELSE LET o == MapGet(st.am, F)
             sid == st.objs[o].sessionId
             us1 == IF sid \in DOMAIN st.us
                    THEN IF st.us[sid] \ {F} = {} THEN DropKey(st.us, sid)
                         ELSE [st.us EXCEPT ![sid] = @ \ {F}]
                    ELSE st.us
         IN [st EXCEPT !.am = MapDelete(@, F),
                       !.pq = DropKey(@, F),
                       !.us = us1]

\* Mutant: the whole paymentQueue is cleared with the entry.
removePayment_ClearsQueue(st, F) ==
    IF ~MapHas(st.am, F) THEN st
    ELSE LET o == MapGet(st.am, F)
             sid == st.objs[o].sessionId
             us1 == IF sid \in DOMAIN st.us
                    THEN IF st.us[sid] \ {F} = {} THEN DropKey(st.us, sid)
                         ELSE [st.us EXCEPT ![sid] = @ \ {F}]
                    ELSE st.us
         IN [st EXCEPT !.am = MapDelete(@, F),
                       !.pq = <<>>,
                       !.us = us1]

removePayment(st, F) ==
    IF ~MapHas(st.am, F) THEN st
    ELSE LET o == MapGet(st.am, F)
             sid == st.objs[o].sessionId
             us1 == IF sid \in DOMAIN st.us
                    THEN IF st.us[sid] \ {F} = {} THEN DropKey(st.us, sid)
                         ELSE [st.us EXCEPT ![sid] = @ \ {F}]
                    ELSE st.us
         IN [st EXCEPT !.am = MapDelete(@, F),
                       !.pq = DropKey(@, F),
                       !.us = us1]

expirePayment(st, F, o, origin) ==
    Emit(removePayment(st, F), "payment_expired", F, o, NoResult, origin)

\* Mutant: the event is emitted before the entry is removed, so a listener that throws
\* skips the removal.
handlePaymentSuccess_EmitFirst(st, F, o, res, origin) ==
    IF st.listener = "throws" THEN Emit(st, "payment_success", F, o, res, origin)
    ELSE Emit(removePayment(st, F), "payment_success", F, o, res, origin)

\* Mutant: the paid entry is marked PAID and left in the registry for a later sweep.
handlePaymentSuccess_Lazy(st, F, o, res, origin) ==
    Emit([st EXCEPT !.objs[o].status = "PAID"], "payment_success", F, o, res, origin)

handlePaymentSuccess(st, F, o, res, origin) ==
    Emit(removePayment(st, F), "payment_success", F, o, res, origin)

\* Mutant: the deadline test off by one.
Expired_AtDeadline(st, o, t) == t - st.objs[o].startTime >= maxMonitorTime

Expired(st, o, t) == t - st.objs[o].startTime > maxMonitorTime

\* Mutant: only the checks of a tick are counted, a force-check is not.
checkSinglePaymentBegin_TicksOnly(st, F, o, l, t) ==
    IF Expired(st, o, t) THEN expirePayment(st, F, o, IF l = 0 THEN "force" ELSE "tick")
    ELSE IF FreeCalls(st) = {} \/ st.objs[o].checkCount >= MaxCheckCount
    THEN [st EXCEPT !.full = TRUE]
    ELSE [st EXCEPT !.objs[o].checkCount = IF l = 0 THEN @ ELSE @ + 1,
                    !.objs[o].lastCheck = t,
                    !.calls[Min(FreeCalls(st))] =
                        [md5Hash |-> F, obj |-> o, loop |-> l,
                         n |-> st.objs[o].checkCount + 1]]

\* checkSinglePayment up to its await: expire, or count the check and call the checker.
\* l is the loop whose tick makes the call, 0 for a force-check.
checkSinglePaymentBegin(st, F, o, l, t) ==
    IF Expired(st, o, t) THEN expirePayment(st, F, o, IF l = 0 THEN "force" ELSE "tick")
    ELSE IF FreeCalls(st) = {} \/ st.objs[o].checkCount >= MaxCheckCount
    THEN [st EXCEPT !.full = TRUE]
    ELSE [st EXCEPT !.objs[o].checkCount = @ + 1,
                    !.objs[o].lastCheck = t,
                    !.calls[Min(FreeCalls(st))] =
                        [md5Hash |-> F, obj |-> o, loop |-> l,
                         n |-> st.objs[o].checkCount + 1]]

\* Mutant: the check is counted a second time when an inconclusive result arrives.
checkSinglePaymentResume_Recount(st, c, res) ==
    LET F == st.calls[c].md5Hash
        o == st.calls[c].obj
        s1 == [st EXCEPT !.calls[c] = NoCall]
    IN  IF res = "PAID"
        THEN handlePaymentSuccess(s1, F, o, [status |-> res, call |-> c], Origin(st.calls[c]))
        ELSE [s1 EXCEPT !.objs[o].checkCount = @ + 1,
                        !.objs[o].status = IF res = "threw" THEN @ ELSE res]

\* Mutant: no catch block, the checker's error rejects the promise.
checkSinglePaymentResume_Rethrow(st, c, res) ==
    LET F == st.calls[c].md5Hash
        o == st.calls[c].obj
        s1 == [st EXCEPT !.calls[c] = NoCall]
    IN  IF res = "threw" THEN [s1 EXCEPT !.rejected = TRUE]
        ELSE IF res = "PAID"
        THEN handlePaymentSuccess(s1, F, o, [status |-> res, call |-> c], Origin(st.calls[c]))
        ELSE [s1 EXCEPT !.objs[o].status = res]

\* checkSinglePayment after its await: the checker returned status res, or threw; the
\* catch block swallows the error, so the promise never rejects.
checkSinglePaymentResume(st, c, res) ==
    LET F == st.calls[c].md5Hash
        o == st.calls[c].obj
        s1 == [st EXCEPT !.calls[c] = NoCall]
    IN  IF res = "threw" THEN s1
        ELSE IF res = "PAID"
        THEN handlePaymentSuccess(s1, F, o, [status |-> res, call |-> c], Origin(st.calls[c]))
        ELSE [s1 EXCEPT !.objs[o].status = res]

\* Mutant: the loop stops after the first entry of the Map.
checkAllPayments_FirstOnly(st, entries, i, l, t) ==
    IF entries = <<>> THEN st
    ELSE checkSinglePaymentBegin(st, entries[1].key, entries[1].val, l, t)

\* The for-of loop of checkAllPayments over the entries the Map held when it began.
RECURSIVE checkAllPayments(_, _, _, _, _)
checkAllPayments(st, entries, i, l, t) ==
    IF i > Len(entries) THEN st
    ELSE checkAllPayments(
            checkSinglePaymentBegin(st, entries[i].key, entries[i].val, l, t),
            entries, i + 1, l, t)

----------------------------------------------------------------------------
EngineInit ==
    /\ isRunning = FALSE
    /\ activeMonitors = <<>>
    /\ userSessions = <<>>
    /\ paymentQueue = <<>>
    /\ objs = [o \in 1..MaxObjs |-> NoObj]
    /\ calls = [c \in 1..MaxCalls |-> NoCall]
    /\ loops = [l \in 1..MaxLoops |-> "free"]
    /\ emitted = <<>>
    /\ now = 0
    /\ lastError = "none"
    /\ lastOp = "none"
    /\ ops = 0

\* No createQR call: no options, nothing returned.
NoOptions == <<>>

NotEncoded ==
    [ok |-> FALSE, str |-> <<>>, error |-> [field |-> "none", maxLength |-> 0, actual |-> 0]]

\* generateCRC16(data) at its first statement: the register is 0xFFFF, no character
\* has been read (i) and no round is due (j = 8: the inner loop is over).
crcStart(data) == [data |-> data, i |-> 0, j |-> 8, crc |-> 65535, hex |-> <<>>]

\* The PaymentService after its constructor, with no call made.
ServiceInit ==
    /\ activeTransactions = <<>>
    /\ transactionHistory = <<>>
    /\ creating = {}
    /\ request = NoRequest
    /\ rejection = NoRejection

\* Bounds of the pollers: the monitorPayment calls made on a PaymentMonitor and on a
\* PaymentService, and the checkPaymentStatus calls one of them has in flight.
MaxWatches == 2
MaxPolls == 2
MaxPending == 2

\* A PaymentMonitor.monitorPayment call: its hash, its setInterval handle ("set" until
\* clearInterval), its 10-minute timer and the number of its checks in flight.
NoWatch == [md5Hash |-> <<>>, checkInterval |-> "none", timer |-> "none", pending |-> 0]

\* A PaymentService.monitorPayment call: its identifier, its timeout option, its
\* startTime, its setInterval handle, the state of the promise it returned and the number of its checks in
\* flight; late is history, the checks initiated after the promise has settled.
NoPoll ==
    [identifier |-> <<>>, timeout |-> 0, startTime |-> 0, checkInterval |-> "none",
     promise |-> "none", pending |-> 0, late |-> 0]

\* A PaymentMonitor after its constructor, and no monitorPayment call on either class.
PollInit ==
    /\ monitoredPayments = {}
    /\ watches = [w \in 1..MaxWatches |-> NoWatch]
    /\ polls = [p \in 1..MaxPolls |-> NoPoll]

Init ==
    /\ EngineInit
    /\ options = NoOptions
    /\ encoded = NotEncoded
    /\ ServiceInit
    /\ PollInit
    /\ crcRun = crcStart(<<>>)

\* One more API call by the environment.
ApiCall(method) ==
    /\ ops < MaxOps
    /\ ops' = ops + 1
    /\ lastOp' = method

startPeriodicCheck(ls) == [ls EXCEPT ![Min({l \in DOMAIN ls : ls[l] = "free"})] = "timer"]

\* start(): a second start while running returns at once; else one new loop timer.
start ==
    /\ ApiCall("start")
    /\ lastError' = "none"
    /\ IF isRunning
       THEN UNCHANGED <<isRunning, loops>>
       ELSE /\ \E l \in DOMAIN loops : loops[l] = "free"
            /\ isRunning' = TRUE
            /\ loops' = startPeriodicCheck(loops)
    /\ Install(State)
    /\ UNCHANGED now

stopState(st) == [st EXCEPT !.am = <<>>, !.us = <<>>, !.pq = <<>>]

\* stop(): clears the three maps; pending timers and checks in flight are left alone.
stop ==
    /\ ApiCall("stop")
    /\ isRunning' = FALSE
    /\ Install(stopState(State))
    /\ lastError' = "none"
    /\ UNCHANGED <<loops, now>>

addPaymentState(st, F, S, t) ==
    IF FreeObjs(st) = {} THEN [st EXCEPT !.full = TRUE]
    ELSE LET o == Min(FreeObjs(st))
             info == [md5Hash |-> F, sessionId |-> S, startTime |-> t, lastCheck |-> t,
                      checkCount |-> 0, status |-> "MONITORING", resolved |-> "no"]
             s1 == [st EXCEPT !.objs[o] = info,
                              !.am = MapSet(@, F, o),
                              !.us = IF S \in DOMAIN @ THEN [@ EXCEPT ![S] = @ \cup {F}]
                                     ELSE PutKey(@, S, {F}),
                              !.pq = PutKey(@, F, o)]
         IN Emit(s1, "payment_added", F, o, NoResult, "none")

addPayment(F, S) ==
    /\ ApiCall("addPayment")
    /\ Install(addPaymentState(State, F, S, now))
    /\ lastError' = "none"
    /\ UNCHANGED <<isRunning, loops, now>>

removePaymentCall(F) ==
    /\ ApiCall("removePayment")
    /\ Install(removePayment(State, F))
    /\ lastError' = IF removePayment(State, F).rejected THEN "TypeError" ELSE "none"
    /\ UNCHANGED <<isRunning, loops, now>>

\* Mutant: the next timer is set only inside the test for a non-empty registry.
checkAllPaymentsTimer_StopsWhenIdle(l) ==
    /\ UNCHANGED ops
    /\ lastOp' = "none"
    /\ loops[l] = "timer"
    /\ IF ~isRunning \/ activeMonitors = <<>>
       THEN /\ loops' = [loops EXCEPT ![l] = "free"]
            /\ Install(State)
       ELSE \E ln \in ListenerOutcomes :
            LET st == checkAllPayments(Heard(ln), activeMonitors, 1, l, now)
            IN /\ Install(st)
               /\ loops' = [loops EXCEPT ![l] = IF Outstanding(st.calls, l) = {}
                                                THEN "timer" ELSE "awaiting"]
    /\ lastError' = "none"
    /\ UNCHANGED <<isRunning, now>>

\* Mutant: the next timer is set without awaiting the checks of the tick.
checkAllPaymentsTimer_NoAwait(l) ==
    /\ UNCHANGED ops
    /\ lastOp' = "none"
    /\ loops[l] = "timer"
    /\ IF ~isRunning
       THEN /\ loops' = [loops EXCEPT ![l] = "free"]
            /\ Install(State)
       ELSE /\ \E ln \in ListenerOutcomes :
                  Install(checkAllPayments(Heard(ln), activeMonitors, 1, l, now))
            /\ loops' = loops
    /\ lastError' = "none"
    /\ UNCHANGED <<isRunning, now>>

\* Mutant: the tick does not test isRunning.
checkAllPaymentsTimer_NoRunningTest(l) ==
    /\ UNCHANGED ops
    /\ lastOp' = "none"
    /\ loops[l] = "timer"
    /\ \E ln \in ListenerOutcomes :
          LET st == checkAllPayments(Heard(ln), activeMonitors, 1, l, now)
          IN /\ Install(st)
             /\ loops' = [loops EXCEPT ![l] = IF Outstanding(st.calls, l) = {}
                                              THEN "timer" ELSE "awaiting"]
    /\ lastError' = "none"
    /\ UNCHANGED <<isRunning, now>>

\* A checkAllPayments timer fires.
checkAllPaymentsTimer(l) ==
    /\ UNCHANGED ops
    /\ lastOp' = "none"
    /\ loops[l] = "timer"
    /\ IF ~isRunning
       THEN /\ loops' = [loops EXCEPT ![l] = "free"]
            /\ Install(State)
       ELSE \E ln \in ListenerOutcomes :
            LET st == checkAllPayments(Heard(ln), activeMonitors, 1, l, now)
            IN /\ Install(st)
               /\ loops' = [loops EXCEPT ![l] = IF Outstanding(st.calls, l) = {}
                                                THEN "timer" ELSE "awaiting"]
    /\ lastError' = "none"
    /\ UNCHANGED <<isRunning, now>>

forceCheckState(st, F, t) == checkSinglePaymentBegin(st, F, MapGet(st.am, F), 0, t)

\* Mutant: an unknown fingerprint is skipped in silence.
forceCheck_Silent(F) ==
    /\ ApiCall("forceCheck")
    /\ lastError' = "none"
    /\ IF ~MapHas(activeMonitors, F)
       THEN Install(State)
       ELSE \E ln \in ListenerOutcomes : Install(forceCheckState(Heard(ln), F, now))
    /\ UNCHANGED <<isRunning, loops, now>>

forceCheck(F) ==
    /\ ApiCall("forceCheck")
    /\ IF ~MapHas(activeMonitors, F)
       THEN /\ lastError' = "NotMonitored"
            /\ Install(State)
       ELSE /\ lastError' = "none"
            /\ \E ln \in ListenerOutcomes : Install(forceCheckState(Heard(ln), F, now))
    /\ UNCHANGED <<isRunning, loops, now>>

forceCheckPayment(F) ==
    /\ ApiCall("forceCheckPayment")
    /\ IF ~MapHas(activeMonitors, F)
       THEN /\ lastError' = "NotMonitored"
            /\ Install(State)
       ELSE /\ lastError' = "none"
            /\ \E ln \in ListenerOutcomes : Install(forceCheckState(Heard(ln), F, now))
    /\ UNCHANGED <<isRunning, loops, now>>

\* forceCheckAllPayments(): one iteration of its loop over the live Map iterator.  Each
\* iteration takes the entry the Map holds then and awaits checkSinglePayment on it;
\* which entry the iterator has come to is left open here.
forceCheckAllPaymentsOn(i) ==
    /\ ApiCall("forceCheckAllPayments")
    /\ \E ln \in ListenerOutcomes :
          Install(checkSinglePaymentBegin(Heard(ln), activeMonitors[i].key,
                                          activeMonitors[i].val, 0, now))
    /\ lastError' = "none"
    /\ UNCHANGED <<isRunning, loops, now>>

forceCheckAllPayments == \E i \in DOMAIN activeMonitors : forceCheckAllPaymentsOn(i)

\* The identifier checkPaymentStatus is given: a transaction id (a uuid) or an md5
\* digest (32 hexadecimal digits).  The two are strings of different shapes, so a
\* digest is never a key of activeTransactions.
TransactionId(id) == [kind |-> "transactionId", value |-> id]

Md5Hash(F) == [kind |-> "md5Hash", value |-> F]

\* if (this.activeTransactions.has(identifier)): the transaction checkPaymentStatus
\* works on, 0 when the identifier is not a key of the Map.
transactionOf(txs, identifier) ==
    IF identifier.kind = "transactionId" /\ MapHas(txs, identifier.value)
    THEN identifier.value ELSE 0

\* transaction.status = status, when checkPaymentStatus has a transaction and the
\* checker has returned a status; the transaction is one object, held by the Map and
\* by the history array.
setStatus(tx, id, res) ==
    IF id # 0 /\ res # "threw" /\ tx.transactionId = id THEN [tx EXCEPT !.status = res]
    ELSE tx

checkPaymentStatusUpdate(txs, identifier, res) ==
    [i \in DOMAIN txs |->
        [key |-> txs[i].key,
         val |-> setStatus(txs[i].val, transactionOf(txs, identifier), res)]]

\* A step of the monitor in which paymentService.checkPaymentStatus(identifier) has
\* returned res, or thrown.
InstallChecked(st, identifier, res) ==
    /\ InstallMonitor(st)
    /\ activeTransactions' = checkPaymentStatusUpdate(activeTransactions, identifier, res)
    /\ transactionHistory' =
          [i \in DOMAIN transactionHistory |->
              setStatus(transactionHistory[i],
                        transactionOf(activeTransactions, identifier), res)]
    /\ UNCHANGED <<options, encoded, creating, crcRun, pollVars>>
    /\ request' = NoRequest
    /\ rejection' = NoRejection

\* The StatusChecker call c returns res (or throws) and checkSinglePayment resumes.
\* Promise.all of a tick resolves with its last check and the next timer is set; were
\* a check to reject, Promise.all would reject and the loop would end there.
checkPaymentStatusReturns(c, res) ==
    /\ UNCHANGED ops
    /\ lastOp' = "none"
    /\ calls[c] # NoCall
    /\ \E ln \in ListenerOutcomes :
       LET st == checkSinglePaymentResume(Heard(ln), c, res)
           l == calls[c].loop
       IN /\ InstallChecked(st, Md5Hash(calls[c].md5Hash), res)
          /\ loops' = IF l = 0 \/ loops[l] # "awaiting" THEN loops
                      ELSE IF st.rejected THEN [loops EXCEPT ![l] = "free"]
                      ELSE IF Outstanding(st.calls, l) = {}
                      THEN [loops EXCEPT ![l] = "timer"] ELSE loops
    /\ lastError' = "none"
    /\ UNCHANGED <<isRunning, now>>

advanceClock ==
    /\ UNCHANGED ops
    /\ lastOp' = "none"
    /\ now < MaxTime
    /\ now' = now + 1
    /\ Install(State)
    /\ lastError' = "none"
    /\ UNCHANGED <<isRunning, loops>>

Next ==
    \/ start
    \/ stop
    \/ \E F \in Hashes, S \in Sessions : addPayment(F, S)
    \/ \E F \in Hashes : removePaymentCall(F)
    \/ \E l \in DOMAIN loops : checkAllPaymentsTimer(l)
    \/ \E F \in Hashes : forceCheck(F)
    \/ \E F \in Hashes : forceCheckPayment(F)
    \/ forceCheckAllPayments
    \/ \E c \in DOMAIN calls, res \in CheckerOutcomes : checkPaymentStatusReturns(c, res)
    \/ advanceClock

Spec == Init /\ [][Next]_vars

\* The same engine with time that passes, timers that fire and StatusChecker calls that
\* all return or throw.  The clock of the model stops at MaxTime, so entries are
\* registered only while it leaves room for their deadline.
MaxStartTime == MaxTime - maxMonitorTime - 1

addPaymentEarly(F, S) ==
    /\ now <= MaxStartTime
    /\ addPayment(F, S)

LiveNext ==
    \/ start
    \/ stop
    \/ \E F \in Hashes, S \in Sessions : addPaymentEarly(F, S)
    \/ \E F \in Hashes : removePaymentCall(F)
    \/ \E l \in DOMAIN loops : checkAllPaymentsTimer(l)
    \/ \E F \in Hashes : forceCheck(F)
    \/ \E F \in Hashes : forceCheckPayment(F)
    \/ forceCheckAllPayments
    \/ \E c \in DOMAIN calls, res \in CheckerOutcomes : checkPaymentStatusReturns(c, res)
    \/ advanceClock

Fairness ==
    /\ WF_vars(advanceClock)
    /\ WF_vars(\E l \in DOMAIN loops : checkAllPaymentsTimer(l))
    /\ WF_vars(\E c \in DOMAIN calls, res \in CheckerOutcomes :
                  checkPaymentStatusReturns(c, res))

LiveSpec == Init /\ [][LiveNext]_vars /\ Fairness

----------------------------------------------------------------------------
\* Shorthands for the properties below.

Registered(F) == MapHas(activeMonitors, F)

Entry(F) == MapGet(activeMonitors, F)

Terminal(e) == e.type \in {"payment_success", "payment_expired"}

CallsOf(cs, o) == {c \in DOMAIN cs : cs[c] # NoCall /\ cs[c].obj = o}

\* The step processes the registered entry of F in checkSinglePayment: by a tick of a
\* running loop or by one of the force-check operations.
Processes(F) ==
    \/ \E l \in DOMAIN loops : isRunning /\ checkAllPaymentsTimer(l)
    \/ forceCheck(F)
    \/ forceCheckPayment(F)
    \/ \E i \in DOMAIN activeMonitors : activeMonitors[i].key = F /\ forceCheckAllPaymentsOn(i)

----------------------------------------------------------------------------
\* C1: at every instant at most one StatusChecker call is in flight for a given
\* fingerprint, whatever the interleaving of ticks and force-checks.
C1_OneCheckInFlight == \A F \in Hashes : Cardinality(InFlight(calls, F)) <= 1

\* C2: when a force-check of F and a tick's check of F overlap, one registration of F
\* gets at most one payment_success / payment_expired event over the whole run: no
\* event is emitted for a monitorInfo that a check of the other origin already resolved.
C2_OneTerminalTransition ==
    [][\A i \in DOMAIN emitted' :
          Terminal(emitted'[i]) =>
              objs[emitted'[i].obj].resolved \in {"no", emitted'[i].origin}]_vars

\* C3: when a tick's check of the entry of F (owned by session S) returns PAID, F is
\* gone from activeMonitors, paymentQueue and the session set of S, exactly one
\* payment_success event carrying the checker result is emitted for that registration
\* (none was emitted for it before), and on the first check of the entry the emitted
\* entry has checkCount 1.
C3_TickPaidResolves ==
    [][\A c \in DOMAIN calls :
          (calls[c] # NoCall /\ calls[c].loop # 0 /\ checkPaymentStatusReturns(c, "PAID")) =>
              LET F == calls[c].md5Hash
                  o == calls[c].obj
                  S == objs[o].sessionId
              IN /\ ~MapHas(activeMonitors', F)
                 /\ F \notin DOMAIN paymentQueue'
                 /\ S \in DOMAIN userSessions' => F \notin userSessions'[S]
                 /\ objs[o].resolved = "no"
                 /\ Len(emitted') = 1
                 /\ emitted'[1].type = "payment_success"
                 /\ emitted'[1].md5Hash = F
                 /\ emitted'[1].obj = o
                 /\ emitted'[1].result = [status |-> "PAID", call |-> c]
                 /\ calls[c].n = 1 => emitted'[1].checkCount = 1]_vars

\* C4: an entry older than maxMonitorTime when it is processed (by a tick or by a
\* force-check) is removed with one payment_expired event, no StatusChecker call and
\* an unchanged checkCount; and no entry is expired at an age of maxMonitorTime or less.
C4_ExpiryOnlyPastDeadline ==
    [][/\ \A F \in Hashes :
            (Registered(F) /\ now - objs[Entry(F)].startTime > maxMonitorTime
                /\ Processes(F)) =>
                LET o == Entry(F)
                IN /\ ~MapHas(activeMonitors', F)
                   /\ \A i \in DOMAIN activeMonitors' : activeMonitors'[i].val # o
                   /\ Cardinality({i \in DOMAIN emitted' :
                         emitted'[i] = [type |-> "payment_expired", md5Hash |-> F,
                                        obj |-> o, result |-> NoResult,
                                        origin |-> emitted'[i].origin,
                                        checkCount |-> objs[o].checkCount,
                                        threw |-> emitted'[i].threw]}) = 1
                   /\ Cardinality({i \in DOMAIN emitted' : emitted'[i].obj = o}) = 1
                   /\ CallsOf(calls', o) = CallsOf(calls, o)
                   /\ objs'[o].checkCount = objs[o].checkCount
       /\ \A i \in DOMAIN emitted' :
            emitted'[i].type = "payment_expired" =>
                /\ now' - objs'[emitted'[i].obj].startTime > maxMonitorTime
                /\ objs[emitted'[i].obj] = [objs'[emitted'[i].obj] EXCEPT !.resolved = "no"]
      ]_vars

\* C4 witness: an entry was expired by a tick while another entry of the same tick,
\* exactly maxMonitorTime old, was checked instead.
C4_Witness ==
    /\ \E i \in DOMAIN emitted :
          emitted[i].type = "payment_expired" /\ emitted[i].origin = "tick"
    /\ \E c \in DOMAIN calls :
          calls[c] # NoCall /\ now - objs[calls[c].obj].startTime = maxMonitorTime

\* C5: the status of every entry held in activeMonitors is MONITORING, PAID or
\* EXPIRED; after a check that returns a non-PAID result it is still MONITORING.
C5_StatusVocabulary ==
    \A i \in DOMAIN activeMonitors :
        objs[activeMonitors[i].val].status \in {"MONITORING", "PAID", "EXPIRED"}

\* C6: a check of a non-expired entry that does not return PAID keeps the entry
\* registered, adds exactly 1 to its checkCount (when the call is made, nothing more
\* when it returns or throws), sets lastCheck to the time of the check and emits
\* neither payment_success nor payment_expired.
C6_InconclusiveCheck ==
    [][/\ \A c \in DOMAIN calls :
            (calls[c] = NoCall /\ calls'[c] # NoCall) =>
                LET o == calls'[c].obj
                    F == calls'[c].md5Hash
                IN /\ objs'[o].checkCount = objs[o].checkCount + 1
                   /\ objs'[o].lastCheck = now
                   /\ MapHas(activeMonitors', F) /\ MapGet(activeMonitors', F) = o
                   /\ \A i \in DOMAIN emitted' : emitted'[i].obj # o
       /\ \A c \in DOMAIN calls : \A res \in {"UNPAID", "threw"} :
            (calls[c] # NoCall /\ calls'[c] = NoCall /\ ops' = ops /\ now' = now
                /\ checkPaymentStatusReturns(c, res)) =>
                LET o == calls[c].obj
                    F == calls[c].md5Hash
                IN /\ emitted' = <<>>
                   /\ activeMonitors' = activeMonitors
                   /\ userSessions' = userSessions
                   /\ paymentQueue' = paymentQueue
                   /\ (Registered(F) /\ Entry(F) = o) =>
                         /\ objs'[o].checkCount = objs[o].checkCount
                         /\ objs'[o].lastCheck = objs[o].lastCheck
      ]_vars

\* C6 witness: a registered entry whose one check, made at time 1, threw: it is
\* counted, not in flight any more, and the entry is still there.
C6_Witness ==
    \E F \in Hashes :
        /\ Registered(F)
        /\ objs[Entry(F)].checkCount = 1
        /\ objs[Entry(F)].status = "MONITORING"
        /\ objs[Entry(F)].startTime = 0
        /\ objs[Entry(F)].lastCheck = 1
        /\ CallsOf(calls, Entry(F)) = {}

\* C7: a StatusChecker call that throws is caught inside checkSinglePayment: its
\* promise resolves, the other checks of the tick stay in flight until their own
\* results are applied, and the loop goes on: it waits for them, or sets the next timer
\* when the failed check was the last one.  A tick of a running monitor issues a check
\* for every registered entry that is not past its deadline, a loop is awaiting exactly
\* while a check of its tick is in flight, and nothing blocks the resumption of a check
\* in flight, whatever the checker's outcome.
C7_ThrowIsCaught ==
    /\ [](\A l \in DOMAIN loops : loops[l] = "awaiting" <=> Outstanding(calls, l) # {})
    /\ [](\A c \in DOMAIN calls : calls[c] # NoCall =>
              \A res \in CheckerOutcomes : ~checkSinglePaymentResume(State, c, res).full)
    /\ [][\A l \in DOMAIN loops :
            (isRunning /\ checkAllPaymentsTimer(l)) =>
                \A i \in DOMAIN activeMonitors :
                    ~Expired(State, activeMonitors[i].val, now) =>
                        \E c \in Outstanding(calls', l) :
                            /\ calls[c] = NoCall
                            /\ calls'[c].md5Hash = activeMonitors[i].key
                            /\ calls'[c].obj = activeMonitors[i].val]_vars
    /\ [][\A c \in DOMAIN calls :
            (calls[c] # NoCall /\ ops' = ops /\ now' = now
                /\ checkPaymentStatusReturns(c, "threw")) =>
                LET l == calls[c].loop
                IN /\ calls'[c] = NoCall
                   /\ \A d \in DOMAIN calls \ {c} : calls'[d] = calls[d]
                   /\ l # 0 => loops'[l] = IF Outstanding(calls, l) = {c}
                                           THEN "timer" ELSE "awaiting"
                   /\ \A k \in DOMAIN loops \ {l} : loops'[k] = loops[k]]_vars

\* C7 witness: in a tick over two entries one check has thrown (counted, no longer in
\* flight, entry kept) while the other is still in flight and the loop awaits it.
C7_Witness ==
    \E l \in DOMAIN loops : \E F, G \in Hashes :
        /\ F # G /\ Registered(F) /\ Registered(G)
        /\ loops[l] = "awaiting"
        /\ objs[Entry(F)].checkCount = 1
        /\ objs[Entry(F)].status = "MONITORING"
        /\ CallsOf(calls, Entry(F)) = {}
        /\ \E c \in Outstanding(calls, l) : calls[c].obj = Entry(G)

\* C8: addPayment of a fingerprint that is already registered fails with a
\* DuplicateFingerprint error and leaves the existing entry and the session index as
\* they were.
C8_DuplicateRejected ==
    [][\A F \in Hashes : \A S \in Sessions :
          (Registered(F) /\ addPayment(F, S)) =>
              /\ lastError' = "DuplicateFingerprint"
              /\ activeMonitors' = activeMonitors
              /\ userSessions' = userSessions
              /\ objs'[Entry(F)] = objs[Entry(F)]]_vars

\* C9: the session index matches the registry: F is in userSessions[s] exactly when
\* activeMonitors holds an entry for F with sessionId s, and no session key maps to an
\* empty set.
C9_SessionIndexMatches ==
    /\ \A s \in Sessions : \A F \in Hashes :
          (s \in DOMAIN userSessions /\ F \in userSessions[s])
              <=> (Registered(F) /\ objs[Entry(F)].sessionId = s)
    /\ \A s \in DOMAIN userSessions : userSessions[s] # {}

\* C10: no entry of activeMonitors ever has status PAID or EXPIRED: the step that emits
\* payment_success or payment_expired for an entry takes it out of the registry, and a
\* tick checks or expires only entries that are registered and not resolved.
C10_NoTerminalEntryInRegistry ==
    /\ [](\A i \in DOMAIN activeMonitors :
            objs[activeMonitors[i].val].status \notin {"PAID", "EXPIRED"})
    /\ [][/\ \A i \in DOMAIN emitted' :
                Terminal(emitted'[i]) =>
                    /\ ~MapHas(activeMonitors', emitted'[i].md5Hash)
                    /\ \A j \in DOMAIN activeMonitors' :
                          activeMonitors'[j].val # emitted'[i].obj
          /\ \A c \in DOMAIN calls :
                (calls[c] = NoCall /\ calls'[c] # NoCall /\ calls'[c].loop # 0) =>
                    /\ Registered(calls'[c].md5Hash)
                    /\ Entry(calls'[c].md5Hash) = calls'[c].obj
                    /\ objs[calls'[c].obj].resolved = "no"
          /\ \A i \in DOMAIN emitted' :
                (emitted'[i].type = "payment_expired" /\ emitted'[i].origin = "tick") =>
                    /\ Registered(emitted'[i].md5Hash)
                    /\ Entry(emitted'[i].md5Hash) = emitted'[i].obj
                    /\ objs[emitted'[i].obj].resolved = "no"
         ]_vars

\* C10 witness: a tick's check came back PAID: the event is out and the fingerprint
\* is registered no more, while the other entry stays.
C10_Witness ==
    /\ Len(emitted) = 1
    /\ emitted[1].type = "payment_success"
    /\ emitted[1].origin = "tick"
    /\ ~Registered(emitted[1].md5Hash)
    /\ activeMonitors # <<>>

\* C11: removePayment(F) is idempotent: for a fingerprint that is not registered it
\* returns without error and leaves activeMonitors, userSessions and paymentQueue as
\* they were and emits nothing, and removing twice gives the state of removing once.
C11_RemoveIdempotent ==
    /\ [](\A F \in Hashes :
            removePayment(removePayment(State, F), F) = removePayment(State, F))
    /\ [][\A F \in Hashes :
            removePaymentCall(F) =>
                /\ lastError' = "none"
                /\ ~MapHas(activeMonitors', F)
                /\ ~Registered(F) =>
                      /\ activeMonitors' = activeMonitors
                      /\ userSessions' = userSessions
                      /\ paymentQueue' = paymentQueue
                      /\ calls' = calls
                      /\ emitted' = <<>>]_vars

\* C11 witness: the one API call made so far was removePayment, on an empty registry.
C11_Witness ==
    /\ lastOp = "removePayment"
    /\ ops = 1
    /\ lastError = "none"
    /\ activeMonitors = <<>>

\* C12: forceCheck(F) and forceCheckPayment(F) for a fingerprint that is not registered
\* raise a not-monitored error to the caller, without a StatusChecker call, without an
\* event and without a change of the registry.
C12_NotMonitoredError ==
    [][\A F \in Hashes :
          (~Registered(F) /\ (forceCheck(F) \/ forceCheckPayment(F))) =>
              /\ lastError' = "NotMonitored"
              /\ calls' = calls
              /\ emitted' = <<>>
              /\ activeMonitors' = activeMonitors
              /\ userSessions' = userSessions
              /\ paymentQueue' = paymentQueue]_vars

\* C12 witness: forceCheck has just failed on a fingerprint that is not registered
\* while another one is.
C12_Witness ==
    /\ lastOp = "forceCheck"
    /\ lastError = "NotMonitored"
    /\ activeMonitors # <<>>
    /\ calls = [c \in DOMAIN calls |-> NoCall]

\* C13: within a periodic loop the next tick is scheduled only after every check the
\* current tick issued has resolved: a loop whose timer is pending has no check in
\* flight, a tick starts with none of its loop's checks in flight, and the timer is set
\* by the return of the last one.
C13_NextTickAfterAllChecks ==
    /\ [](\A l \in DOMAIN loops : loops[l] # "awaiting" => Outstanding(calls, l) = {})
    /\ [][\A l \in DOMAIN loops :
            /\ checkAllPaymentsTimer(l) => Outstanding(calls, l) = {}
            /\ (loops[l] = "awaiting" /\ loops'[l] # "awaiting") =>
                  /\ loops'[l] = "timer"
                  /\ Outstanding(calls', l) = {}
                  /\ \E c \in Outstanding(calls, l) : calls'[c] = NoCall]_vars

\* C13 witness: the one check of a tick has come back UNPAID and the loop has set its
\* next timer (two API calls so far: start and addPayment).
C13_Witness ==
    \E l \in DOMAIN loops : \E F \in Hashes :
        /\ isRunning /\ ops = 2
        /\ loops[l] = "timer"
        /\ Registered(F)
        /\ objs[Entry(F)].checkCount = 1
        /\ objs[Entry(F)].status = "UNPAID"
        /\ Outstanding(calls, l) = {}

\* C14: while the monitor is running and every StatusChecker call returns or throws,
\* every registered entry is eventually removed from the registry; a tick of the running
\* monitor removes each entry whose age exceeds maxMonitorTime.
C14_EveryEntryLeaves ==
    /\ \A F \in Hashes : (isRunning /\ Registered(F)) ~> ~Registered(F)
    /\ [][\A l \in DOMAIN loops :
            (isRunning /\ checkAllPaymentsTimer(l)) =>
                \A i \in DOMAIN activeMonitors :
                    (now - objs[activeMonitors[i].val].startTime > maxMonitorTime) =>
                        /\ ~MapHas(activeMonitors', activeMonitors[i].key)
                        /\ \E j \in DOMAIN emitted' :
                              /\ emitted'[j].type = "payment_expired"
                              /\ emitted'[j].obj = activeMonitors[i].val]_vars

\* C14 witness: the running monitor's tick has just expired the last entry, which had
\* been checked before without a PAID result.
C14_Witness ==
    /\ isRunning
    /\ lastOp = "none"
    /\ activeMonitors = <<>>
    /\ Len(emitted) = 1
    /\ emitted[1].type = "payment_expired"
    /\ emitted[1].origin = "tick"
    /\ emitted[1].checkCount = 1
    /\ objs[emitted[1].obj].status = "UNPAID"

\* C15: a listener of payment_success or payment_expired that throws does not affect
\* the scheduler: in the step that emits the event the entry is still removed from the
\* registry and the queue, no loop ends, a tick still expires or checks every other
\* entry, and the loop of a returning check sets its next timer or awaits the rest.
C15_ListenerThrowIsHarmless ==
    [][(\E i \in DOMAIN emitted' : Terminal(emitted'[i]) /\ emitted'[i].threw) =>
          /\ \A i \in DOMAIN emitted' :
                Terminal(emitted'[i]) =>
                    /\ ~MapHas(activeMonitors', emitted'[i].md5Hash)
                    /\ emitted'[i].md5Hash \notin DOMAIN paymentQueue'
                    /\ \A j \in DOMAIN activeMonitors' :
                          activeMonitors'[j].val # emitted'[i].obj
          /\ \A l \in DOMAIN loops : loops[l] # "free" => loops'[l] # "free"
          /\ \A l \in DOMAIN loops :
                checkAllPaymentsTimer(l) =>
                    /\ \A j \in DOMAIN activeMonitors :
                          IF Expired(State, activeMonitors[j].val, now)
                          THEN /\ ~MapHas(activeMonitors', activeMonitors[j].key)
                               /\ \E i \in DOMAIN emitted' :
                                     /\ emitted'[i].type = "payment_expired"
                                     /\ emitted'[i].obj = activeMonitors[j].val
                          ELSE \E c \in Outstanding(calls', l) :
                                     /\ calls[c] = NoCall
                                     /\ calls'[c].obj = activeMonitors[j].val
                    /\ loops'[l] = IF Outstanding(calls', l) = {}
                                   THEN "timer" ELSE "awaiting"
          /\ \A c \in DOMAIN calls :
                (calls[c] # NoCall /\ calls'[c] = NoCall) =>
                    /\ \A d \in DOMAIN calls \ {c} : calls'[d] = calls[d]
                    /\ (calls[c].loop # 0 /\ loops[calls[c].loop] = "awaiting") =>
                          loops'[calls[c].loop] =
                              IF Outstanding(calls, calls[c].loop) = {c}
                              THEN "timer" ELSE "awaiting"
      ]_vars

\* C15 witness: a tick's check came back PAID and the listener of payment_success threw:
\* the entry is gone, the other entry's check is still awaited by the loop.
C15_Witness ==
    /\ Len(emitted) = 1
    /\ emitted[1].type = "payment_success"
    /\ emitted[1].origin = "tick"
    /\ emitted[1].threw
    /\ ~Registered(emitted[1].md5Hash)
    /\ \E l \in DOMAIN loops : loops[l] = "awaiting" /\ Outstanding(calls, l) # {}

\* The counters of the status route.
getTotalPayments == Len(activeMonitors)

getPendingPayments ==
    Cardinality({i \in DOMAIN activeMonitors :
                    objs[activeMonitors[i].val].status = "UNPAID"})

getCompletedPayments ==
    Cardinality({i \in DOMAIN activeMonitors :
                    objs[activeMonitors[i].val].status = "PAID"})

\* C16: getPendingPayments() is the number of registered entries that are being
\* monitored (not resolved yet), entries that were never checked included, and
\* getTotalPayments() is the number of registered entries.
C16_PendingCountsMonitored ==
    /\ getPendingPayments =
          Cardinality({i \in DOMAIN activeMonitors :
                          objs[activeMonitors[i].val].resolved = "no"})
    /\ getTotalPayments = Cardinality(MapKeys(activeMonitors))

----------------------------------------------------------------------------
(***************************************************************************)
(* The KHQR codec (BakongKHQR in src/unnamed/part_003).  A JavaScript      *)
(* string is a sequence of one-character strings; a method that can throw  *)
(* returns a record: ok and the string built, or the error thrown.         *)
(***************************************************************************)

\* EMV.INVALID_LENGTH_*: the ceilings of validateLength.
INVALID_LENGTH_MERCHANT_NAME == 25
INVALID_LENGTH_BAKONG_ACCOUNT == 32
INVALID_LENGTH_MERCHANT_CITY == 15
INVALID_LENGTH_TRANSACTION_AMOUNT == 14
INVALID_LENGTH_BILL_NUMBER == 25
INVALID_LENGTH_STORE_LABEL == 25
INVALID_LENGTH_TERMINAL_LABEL == 25
INVALID_LENGTH_MOBILE_NUMBER == 25

\* The length of the short attribute values the inputs are drawn from.
ShortLen == 1

DigitChars == <<"0", "1", "2", "3", "4", "5", "6", "7", "8", "9">>

HexChars == DigitChars \o <<"A", "B", "C", "D", "E", "F">>

\* n copies of the character ch.
Repeat(ch, n) == [i \in 1..n |-> ch]

\* Number.prototype.toString(): the decimal digits of n >= 0.
RECURSIVE ToDecimal(_)
ToDecimal(n) ==
    IF n < 10 THEN <<DigitChars[n + 1]>>
    ELSE ToDecimal(n \div 10) \o <<DigitChars[(n % 10) + 1]>>

\* String.prototype.padStart(n, ch): pads on the left up to n, never cuts.
padStart(str, n, ch) == IF Len(str) >= n THEN str ELSE Repeat(ch, n - Len(str)) \o str

NoError == [field |-> "none", maxLength |-> 0, actual |-> 0]

Returned(str) == [ok |-> TRUE, str |-> str, error |-> NoError]

Thrown(err) == [ok |-> FALSE, str |-> <<>>, error |-> err]

\* formatValue(tag, value): tag, the length on at least two digits, the value.
formatValue(tag, value) == tag \o padStart(ToDecimal(Len(value)), 2, "0") \o value

\* validateLength that also refuses a value of exactly maxLength characters.
validateLength_AtCeiling(value, maxLength, fieldName) ==
    IF Len(value) >= maxLength
    THEN [field |-> fieldName, maxLength |-> maxLength, actual |-> Len(value)]
    ELSE NoError

\* validateLength(value, maxLength, fieldName): the error it throws, NoError if none.
validateLength(value, maxLength, fieldName) ==
    IF Len(value) > maxLength
    THEN [field |-> fieldName, maxLength |-> maxLength, actual |-> Len(value)]
    ELSE NoError

payloadFormatIndicator == formatValue(<<"0", "0">>, <<"0", "1">>)

pointOfInitiation(isStatic) ==
    formatValue(<<"0", "1">>, IF isStatic THEN <<"1", "1">> ELSE <<"1", "2">>)

globalUniqueIdentifier(bankAccount) ==
    LET err == validateLength(bankAccount, INVALID_LENGTH_BAKONG_ACCOUNT, "Bank account")
    IN IF err # NoError THEN Thrown(err)
       ELSE Returned(formatValue(<<"2", "9">>, formatValue(<<"0", "0">>, bankAccount)))

merchantCategoryCode == formatValue(<<"5", "2">>, <<"5", "9", "9", "9">>)

countryCode == formatValue(<<"5", "8">>, <<"K", "H">>)

merchantName(name) ==
    LET err == validateLength(name, INVALID_LENGTH_MERCHANT_NAME, "Merchant name")
    IN IF err # NoError THEN Thrown(err) ELSE Returned(formatValue(<<"5", "9">>, name))

merchantCity(city) ==
    LET err == validateLength(city, INVALID_LENGTH_MERCHANT_CITY, "Merchant city")
    IN IF err # NoError THEN Thrown(err) ELSE Returned(formatValue(<<"6", "0">>, city))

\* timestamp(): timestampMs is Date.now().toString(), given as a digit string; the
\* value of tag 99 is the sub-field 00 that carries it.
timestampResult(timestampMs) ==
    LET lengthOfTimestamp == padStart(ToDecimal(Len(timestampMs)), 2, "0")
    IN <<"0", "0">> \o lengthOfTimestamp \o timestampMs

timestamp(timestampMs) ==
    LET result == timestampResult(timestampMs)
        lengthResult == padStart(ToDecimal(Len(result)), 2, "0")
    IN <<"9", "9">> \o lengthResult \o result

\* Number.prototype.toFixed(2) of a non-negative amount: its integer digits, a point
\* and its two decimals.
toFixed2(value) ==
    value.whole \o <<".">> \o padStart(ToDecimal(value.cents), 2, "0")

\* The number of "0" characters str ends with.
RECURSIVE TrailingZeros(_)
TrailingZeros(str) ==
    IF str = <<>> \/ str[Len(str)] # "0" THEN 0
    ELSE 1 + TrailingZeros(SubSeq(str, 1, Len(str) - 1))

\* str.replace(/\.?0+$/, ''): the leftmost match that reaches the end is the whole run
\* of trailing zeros, with the point before it if there is one.
stripTrailingZeros(str) ==
    LET k == TrailingZeros(str)
        n == Len(str)
    IN IF k = 0 THEN str
       ELSE IF k < n /\ str[n - k] = "." THEN SubSeq(str, 1, n - k - 1)
       ELSE SubSeq(str, 1, n - k)

\* The string amount() validates and encodes.
paddedAmountStr(value) == padStart(stripTrailingZeros(toFixed2(value)), 11, "0")

amount(value) ==
    LET err == validateLength(paddedAmountStr(value), INVALID_LENGTH_TRANSACTION_AMOUNT,
                              "Amount")
    IN IF err # NoError THEN Thrown(err)
       ELSE Returned(formatValue(<<"5", "4">>, paddedAmountStr(value)))

transactionCurrency(currency) ==
    formatValue(<<"5", "3">>, IF currency = "USD" THEN <<"8", "4", "0">>
                              ELSE <<"1", "1", "6">>)

\* The four validations come first, in this order; the first that fails throws.
additionalDataField(storeLabel, phoneNumber, billNumber, terminalLabel) ==
    LET e1 == validateLength(billNumber, INVALID_LENGTH_BILL_NUMBER, "Bill number")
        e2 == validateLength(phoneNumber, INVALID_LENGTH_MOBILE_NUMBER, "Phone number")
        e3 == validateLength(storeLabel, INVALID_LENGTH_STORE_LABEL, "Store label")
        e4 == validateLength(terminalLabel, INVALID_LENGTH_TERMINAL_LABEL, "Terminal label")
        billNumberValue == formatValue(<<"0", "1">>, billNumber)
        phoneNumberValue == formatValue(<<"0", "2">>, phoneNumber)
        storeLabelValue == formatValue(<<"0", "3">>, storeLabel)
        terminalLabelValue == formatValue(<<"0", "7">>, terminalLabel)
        combinedData == billNumberValue \o phoneNumberValue \o storeLabelValue
                            \o terminalLabelValue
    IN IF e1 # NoError THEN Thrown(e1)
       ELSE IF e2 # NoError THEN Thrown(e2)
       ELSE IF e3 # NoError THEN Thrown(e3)
       ELSE IF e4 # NoError THEN Thrown(e4)
       ELSE Returned(formatValue(<<"6", "2">>, combinedData))

UpperChars ==
    <<"A", "B", "C", "D", "E", "F", "G", "H", "I", "J", "K", "L", "M",
      "N", "O", "P", "Q", "R", "S", "T", "U", "V", "W", "X", "Y", "Z">>

IndexOf(chars, ch) == CHOOSE i \in DOMAIN chars : chars[i] = ch

\* String.prototype.charCodeAt for the characters a payload is made of.
charCodeAt(ch) ==
    IF ch = "." THEN 46
    ELSE IF \E i \in DOMAIN DigitChars : DigitChars[i] = ch
    THEN 47 + IndexOf(DigitChars, ch)
    ELSE 64 + IndexOf(UpperChars, ch)

\* a ^ b and a & b on non-negative integers.
RECURSIVE BitXor(_, _)
BitXor(a, b) ==
    IF a = 0 THEN b
    ELSE IF b = 0 THEN a
    ELSE ((a + b) % 2) + 2 * BitXor(a \div 2, b \div 2)

\* a & 2^k for a >= 0: the mask keeps bit k of a and nothing else.
BitAndPow2(a, k) == ((a \div (2 ^ k)) % 2) * (2 ^ k)

\* The inner loop of generateCRC16: j rounds of shift, conditional XOR and mask
\* (0x8000 is 2^15, 0x1021 is 4129, & 0xFFFF is % 65536 on a non-negative value).
\* Mutant: crcRounds without the mask crc &= 0xFFFF.
RECURSIVE crcRounds_NoMask(_, _)
crcRounds_NoMask(crc, j) ==
    IF j = 0 THEN crc
    ELSE crcRounds_NoMask(IF BitAndPow2(crc, 15) # 0 THEN BitXor(4129, crc * 2)
                          ELSE crc * 2,
                          j - 1)

RECURSIVE crcRounds(_, _)
crcRounds(crc, j) ==
    IF j = 0 THEN crc
    ELSE crcRounds((IF BitAndPow2(crc, 15) # 0 THEN BitXor(4129, crc * 2) ELSE crc * 2)
                        % 65536,
                   j - 1)

\* The outer loop of generateCRC16 over the characters lo..hi of data, in order: the
\* first half of the range, then the second half on the register the first one left
\* (a register is never negative; the test makes it a value before it is passed on).
RECURSIVE crcFrom(_, _, _, _)
crcFrom(crc, data, lo, hi) ==
    IF lo > hi THEN crc
    ELSE IF lo = hi THEN crcRounds(BitXor(crc, charCodeAt(data[lo]) * 256), 8)
    ELSE LET mid == (lo + hi) \div 2
             left == crcFrom(crc, data, lo, mid)
         IN IF left >= 0 THEN crcFrom(left, data, mid + 1, hi) ELSE left

\* Number.prototype.toString(16).toUpperCase() of n >= 0.
RECURSIVE ToHex(_)
ToHex(n) ==
    IF n < 16 THEN <<HexChars[n + 1]>>
    ELSE ToHex(n \div 16) \o <<HexChars[(n % 16) + 1]>>

generateCRC16(data) == padStart(ToHex(crcFrom(65535, data, 1, Len(data))), 4, "0")

\* Mutant: the checksum is taken over the payload without the checksum tag.
crc_NoPlaceholder(qrData) == <<"6", "3", "0", "4">> \o generateCRC16(qrData)

crc(qrData) == <<"6", "3", "0", "4">> \o generateCRC16(qrData \o <<"6", "3", "0", "4">>)

\* qrParts with the currency appended before the amount.
qrParts_CurrencyFirst(opts) ==
    <<Returned(payloadFormatIndicator),
      Returned(pointOfInitiation(opts.isStatic)),
      globalUniqueIdentifier(opts.bankAccount),
      Returned(merchantCategoryCode),
      Returned(countryCode),
      merchantName(opts.merchantName),
      merchantCity(opts.merchantCity),
      Returned(timestamp(opts.timestampMs)),
      Returned(transactionCurrency(opts.currency))>>
    \o (IF ~opts.isStatic THEN <<amount(opts.amount)>> ELSE <<>>)
    \o <<additionalDataField(opts.storeLabel, opts.phoneNumber, opts.billNumber,
                             opts.terminalLabel)>>

\* The strings createQR appends to qrData, in the order of its statements; each is
\* what the method returned, or the error it threw.
qrParts(opts) ==
    <<Returned(payloadFormatIndicator),
      Returned(pointOfInitiation(opts.isStatic)),
      globalUniqueIdentifier(opts.bankAccount),
      Returned(merchantCategoryCode),
      Returned(countryCode),
      merchantName(opts.merchantName),
      merchantCity(opts.merchantCity),
      Returned(timestamp(opts.timestampMs))>>
    \o (IF ~opts.isStatic THEN <<amount(opts.amount)>> ELSE <<>>)
    \o <<Returned(transactionCurrency(opts.currency)),
         additionalDataField(opts.storeLabel, opts.phoneNumber, opts.billNumber,
                             opts.terminalLabel)>>

\* qrData += part, for the parts from i on; the first part that throws ends createQR.
RECURSIVE appendParts(_, _, _)
appendParts(qrData, parts, i) ==
    IF i > Len(parts) THEN Returned(qrData)
    ELSE IF ~parts[i].ok THEN parts[i]
    ELSE appendParts(qrData \o parts[i].str, parts, i + 1)

\* createQR(options); options.timestampMs is what Date.now().toString() reads.
createQR(opts) ==
    LET built == appendParts(<<>>, qrParts(opts), 1)
    IN IF ~built.ok THEN built ELSE Returned(built.str \o crc(built.str))

\* The top-level fields of the payload createQR returned, as it appended them: the
\* parts, then the checksum field, which is what follows them in the payload.
qrFields(opts, payload) ==
    LET parts == qrParts(opts)
        body == appendParts(<<>>, parts, 1).str
    IN [i \in DOMAIN parts |-> parts[i].str]
           \o <<SubSeq(payload, Len(body) + 1, Len(payload))>>

\* The fields createQR emits below the top level: the account inside tag 29, the
\* time inside tag 99 and the four sub-fields of the additional data, tag 62.
nestedFields(opts) ==
    <<formatValue(<<"0", "0">>, opts.bankAccount),
      timestampResult(opts.timestampMs),
      formatValue(<<"0", "1">>, opts.billNumber),
      formatValue(<<"0", "2">>, opts.phoneNumber),
      formatValue(<<"0", "3">>, opts.storeLabel),
      formatValue(<<"0", "7">>, opts.terminalLabel)>>

----------------------------------------------------------------------------
\* The codec on its own: createQR is called once on options drawn from values at, just
\* over and (for the additional data) far below each ceiling.

Text(n) == Repeat("A", n)

Lengths(ceiling) == {ShortLen, ceiling, ceiling + 1}

\* The merchant's own attributes are at their ceiling or just over it.
Edge(ceiling) == {ceiling, ceiling + 1}

\* Amounts of 2 (ten), ceiling - 2 and ceiling - 1 integer digits, whole or with a
\* half.
Amounts ==
    {[whole |-> <<"1">> \o Repeat("0", n - 1), cents |-> c] :
        n \in {2, INVALID_LENGTH_TRANSACTION_AMOUNT - 2,
               INVALID_LENGTH_TRANSACTION_AMOUNT - 1},
        c \in {0, 50}}

Clock == <<"1", "7", "6", "2", "0", "0", "0", "0", "0", "0", "0", "0", "0">>

OptionsSet ==
    {[bankAccount |-> Text(a), merchantName |-> Text(m), merchantCity |-> Text(c),
      amount |-> amt, currency |-> cur, storeLabel |-> Text(st),
      phoneNumber |-> Text(ph), billNumber |-> Text(b), terminalLabel |-> Text(t),
      isStatic |-> static, timestampMs |-> Clock] :
        a \in Edge(INVALID_LENGTH_BAKONG_ACCOUNT),
        m \in Edge(INVALID_LENGTH_MERCHANT_NAME),
        c \in Edge(INVALID_LENGTH_MERCHANT_CITY),
        amt \in Amounts, cur \in {"USD", "KHR"},
        st \in Lengths(INVALID_LENGTH_STORE_LABEL),
        ph \in Lengths(INVALID_LENGTH_MOBILE_NUMBER),
        b \in Lengths(INVALID_LENGTH_BILL_NUMBER),
        t \in Lengths(INVALID_LENGTH_TERMINAL_LABEL),
        static \in BOOLEAN}

CodecInit ==
    /\ EngineInit
    /\ ServiceInit
    /\ PollInit
    /\ crcRun = crcStart(<<>>)
    /\ options \in OptionsSet
    /\ encoded = NotEncoded

createQRCall ==
    /\ encoded = NotEncoded
    /\ encoded' = createQR(options)
    /\ UNCHANGED <<isRunning, activeMonitors, userSessions, paymentQueue, objs, calls,
                   loops, emitted, now, lastError, lastOp, ops, options,
                   activeTransactions, transactionHistory, creating, request, rejection,
                   crcRun, pollVars>>

CodecNext == createQRCall

CodecSpec == CodecInit /\ [][CodecNext]_vars

----------------------------------------------------------------------------
\* Claims about the codec.

IsDigit(ch) == \E i \in DOMAIN DigitChars : DigitChars[i] = ch

DigitValue(ch) == IndexOf(DigitChars, ch) - 1

\* createQR returned a payload for the options.
Accepted == encoded.ok

\* The field's third and fourth characters are decimal digits whose number is the
\* character count of what follows them.
TwoDigitLength(field) ==
    /\ Len(field) >= 4
    /\ IsDigit(field[3]) /\ IsDigit(field[4])
    /\ 10 * DigitValue(field[3]) + DigitValue(field[4]) = Len(field) - 4

\* C17: every field of a payload createQR returned, top-level or nested, has a length
\* prefix of exactly two decimal digits that equals the character count of its value.
C17_TwoDigitLengthPrefix ==
    Accepted =>
        LET top == qrFields(options, encoded.str)
            nested == nestedFields(options)
        IN /\ \A i \in DOMAIN top : TwoDigitLength(top[i])
           /\ \A i \in DOMAIN nested : TwoDigitLength(nested[i])

\* The tag and the value formatValue was given for a field it built: the value is
\* what follows the tag and the decimal length, which has three digits from 100 on.
FieldTag(field) == SubSeq(field, 1, 2)

FieldValue(field) ==
    IF Len(field) - 4 <= 99 THEN SubSeq(field, 5, Len(field))
    ELSE SubSeq(field, 6, Len(field))

\* A consumer's scan of str from position pos on: two characters of tag, two decimal
\* digits of length, that many characters of value, again until the string ends.
RECURSIVE scanFields(_, _)
scanFields(str, pos) ==
    IF pos > Len(str) THEN [ok |-> TRUE, fields |-> <<>>]
    ELSE IF pos + 3 > Len(str) \/ ~IsDigit(str[pos + 2]) \/ ~IsDigit(str[pos + 3])
    THEN [ok |-> FALSE, fields |-> <<>>]
    ELSE LET length == 10 * DigitValue(str[pos + 2]) + DigitValue(str[pos + 3])
             last == pos + 3 + length
         IN IF last > Len(str) THEN [ok |-> FALSE, fields |-> <<>>]
            ELSE LET rest == scanFields(str, last + 1)
                 IN [ok |-> rest.ok,
                     fields |-> <<[tag |-> SubSeq(str, pos, pos + 1),
                                   value |-> SubSeq(str, pos + 4, last)]>>
                                    \o rest.fields]

\* C18: scanning a payload createQR returned as tag(2) + length(2) + value fields
\* consumes the whole string and yields the fields that were encoded: the same tags
\* and the same values, in the same order.
C18_ScanYieldsEncodedFields ==
    Accepted =>
        LET scanned == scanFields(encoded.str, 1)
            top == qrFields(options, encoded.str)
        IN /\ scanned.ok
           /\ Len(scanned.fields) = Len(top)
           /\ \A i \in DOMAIN top :
                 /\ scanned.fields[i].tag = FieldTag(top[i])
                 /\ scanned.fields[i].value = FieldValue(top[i])

\* The strings of a sequence, one after the other.
RECURSIVE Joined(_)
Joined(strs) == IF strs = <<>> THEN <<>> ELSE Head(strs) \o Joined(Tail(strs))

\* The order of the top-level tags the encoding fixes.
TagOrder(isStatic) ==
    << <<"0", "0">>, <<"0", "1">>, <<"2", "9">>, <<"5", "2">>, <<"5", "8">>,
       <<"5", "9">>, <<"6", "0">>, <<"9", "9">> >>
    \o (IF isStatic THEN <<>> ELSE << <<"5", "4">> >>)
    \o << <<"5", "3">>, <<"6", "2">>, <<"6", "3">> >>

\* C19: a payload createQR returned is its top-level fields one after the other, with
\* the tags 00, 01, 29, 52, 58, 59, 60, 99, 54, 53, 62, 63 in this order when dynamic
\* and the same without 54 when static; tag 01 carries 12 when dynamic and 11 when
\* static, and in a dynamic payload field 53 comes right after field 54.
C19_TagOrder ==
    Accepted =>
        LET top == qrFields(options, encoded.str)
            tags == [i \in DOMAIN top |-> FieldTag(top[i])]
        IN /\ encoded.str = Joined(top)
           /\ tags = TagOrder(options.isStatic)
           /\ top[2] = <<"0", "1", "0", "2", "1">>
                          \o (IF options.isStatic THEN <<"1">> ELSE <<"2">>)
           /\ ~options.isStatic =>
                 \E i \in 1..(Len(top) - 1) :
                     tags[i] = <<"5", "4">> /\ tags[i + 1] = <<"5", "3">>
           /\ options.isStatic => \A i \in DOMAIN top : tags[i] # <<"5", "4">>

\* A dynamic payload whose additional data is too long for a two-digit length.
C19_Witness ==
    /\ Accepted /\ ~options.isStatic
    /\ FieldTag(qrFields(options, encoded.str)[9]) = <<"5", "4">>
    /\ Len(qrFields(options, encoded.str)[11]) > 103

\* The length guards of createQR on the first eight of its parts and on the last
\* one, in the order they run: the name validateLength is given, the value it
\* measures and its ceiling.
guardsBeforeAmount(opts) ==
    <<[field |-> "Bank account", value |-> opts.bankAccount,
       maxLength |-> INVALID_LENGTH_BAKONG_ACCOUNT],
      [field |-> "Merchant name", value |-> opts.merchantName,
       maxLength |-> INVALID_LENGTH_MERCHANT_NAME],
      [field |-> "Merchant city", value |-> opts.merchantCity,
       maxLength |-> INVALID_LENGTH_MERCHANT_CITY]>>

amountGuard(opts) ==
    <<[field |-> "Amount", value |-> paddedAmountStr(opts.amount),
       maxLength |-> INVALID_LENGTH_TRANSACTION_AMOUNT]>>

guardsAfterAmount(opts) ==
    <<[field |-> "Bill number", value |-> opts.billNumber,
       maxLength |-> INVALID_LENGTH_BILL_NUMBER],
      [field |-> "Phone number", value |-> opts.phoneNumber,
       maxLength |-> INVALID_LENGTH_MOBILE_NUMBER],
      [field |-> "Store label", value |-> opts.storeLabel,
       maxLength |-> INVALID_LENGTH_STORE_LABEL],
      [field |-> "Terminal label", value |-> opts.terminalLabel,
       maxLength |-> INVALID_LENGTH_TERMINAL_LABEL]>>

\* createQR has been called on the options.
Called == encoded # NotEncoded

WithinCeiling(guard) == Len(guard.value) <= guard.maxLength

\* Every limited attribute is carried whole by the payload.
Untruncated ==
    LET top == qrFields(options, encoded.str)
        n == Len(top)
    IN /\ FieldValue(top[3]) = formatValue(<<"0", "0">>, options.bankAccount)
       /\ FieldValue(top[6]) = options.merchantName
       /\ FieldValue(top[7]) = options.merchantCity
       /\ ~options.isStatic => FieldValue(top[9]) = paddedAmountStr(options.amount)
       /\ FieldValue(top[n - 1]) =
              formatValue(<<"0", "1">>, options.billNumber)
                 \o formatValue(<<"0", "2">>, options.phoneNumber)
                 \o formatValue(<<"0", "3">>, options.storeLabel)
                 \o formatValue(<<"0", "7">>, options.terminalLabel)

\* With every attribute of guards within its ceiling createQR returns a payload that
\* carries the values whole; with one of them one character over its ceiling and the
\* others within theirs it throws the error that names that field, its ceiling and
\* its length.
LengthGuards(guards) ==
    Called =>
        /\ (\A i \in DOMAIN guards : WithinCeiling(guards[i])) =>
               Accepted /\ Untruncated
        /\ \A i \in DOMAIN guards :
               ( /\ Len(guards[i].value) = guards[i].maxLength + 1
                 /\ \A j \in DOMAIN guards \ {i} : WithinCeiling(guards[j]) ) =>
               /\ ~Accepted
               /\ encoded.str = <<>>
               /\ encoded.error = [field |-> guards[i].field,
                                   maxLength |-> guards[i].maxLength,
                                   actual |-> guards[i].maxLength + 1]

\* C20: for each limited attribute (bank account 32, merchant name 25, merchant city
\* 15, padded amount 14, bill number, phone number, store label and terminal label
\* 25), createQR with the attribute at its ceiling and the others valid returns a
\* payload with the value whole, and with the attribute at ceiling + 1 it fails with
\* an error naming the field, the ceiling and the actual length.
C20_LengthGuards ==
    LengthGuards(guardsBeforeAmount(options) \o amountGuard(options)
                    \o guardsAfterAmount(options))

\* C20, amended: the same, where the padded amount is a limited attribute of a
\* dynamic payload only; createQR does not read the amount of a static one.
C20_LengthGuardsOfEncodedFields ==
    LengthGuards(guardsBeforeAmount(options)
                    \o (IF options.isStatic THEN <<>> ELSE amountGuard(options))
                    \o guardsAfterAmount(options))

\* A dynamic payload refused for its padded amount of 15 characters alone.
C20_Witness ==
    /\ Called /\ ~Accepted /\ ~options.isStatic
    /\ encoded.error = [field |-> "Amount", maxLength |-> 14, actual |-> 15]
    /\ Len(options.billNumber) = INVALID_LENGTH_BILL_NUMBER

\* C22: a payload createQR returned ends with 6304 and four characters that are
\* generateCRC16 of everything before them, the characters 6304 included.
C22_ChecksumOverPrecedingBytes ==
    Accepted =>
        LET payload == encoded.str
            n == Len(payload)
        IN /\ n >= 8
           /\ SubSeq(payload, n - 7, n - 4) = <<"6", "3", "0", "4">>
           /\ SubSeq(payload, n - 3, n) = generateCRC16(SubSeq(payload, 1, n - 4))

\* A static KHR payload with its checksum field.
C22_Witness ==
    /\ Accepted /\ options.isStatic /\ options.currency = "KHR"
    /\ FieldTag(SubSeq(encoded.str, Len(encoded.str) - 7, Len(encoded.str)))
           = <<"6", "3">>

\* The amount written with two decimals, without its trailing zeros and without a
\* point that nothing follows, behind zeros up to 11 characters.
PaddedAmount(value) ==
    LET tens == DigitChars[(value.cents \div 10) + 1]
        units == DigitChars[(value.cents % 10) + 1]
        text == IF value.cents = 0 THEN value.whole
                ELSE IF value.cents % 10 = 0 THEN value.whole \o <<".", tens>>
                ELSE value.whole \o <<".", tens, units>>
    IN IF Len(text) >= 11 THEN text ELSE Repeat("0", 11 - Len(text)) \o text

\* C24: the amount field of a dynamic payload carries the amount formatted to two
\* decimals, stripped of trailing zeros and of a trailing point, left-padded with 0
\* to 11 characters; 10.50 is carried as 00000001050 and 10.00 as 00000000010.
C24_AmountFormat ==
    (Accepted /\ ~options.isStatic) =>
        LET field == qrFields(options, encoded.str)[9]
        IN /\ FieldTag(field) = <<"5", "4">>
           /\ FieldValue(field) = PaddedAmount(options.amount)
           /\ options.amount = [whole |-> <<"1", "0">>, cents |-> 50] =>
                 FieldValue(field) = <<"0", "0", "0", "0", "0", "0", "0", "1", "0", "5", "0">>
           /\ options.amount = [whole |-> <<"1", "0">>, cents |-> 0] =>
                 FieldValue(field) = <<"0", "0", "0", "0", "0", "0", "0", "0", "0", "1", "0">>

----------------------------------------------------------------------------
\* generateCRC16 on its own, statement by statement, on every string of at most
\* MaxCrcLen characters of CrcAlphabet.

MaxCrcLen == 3

CrcAlphabet == {"0", "1", "A", "."}

CrcInputs == UNION {[1..n -> CrcAlphabet] : n \in 0..MaxCrcLen}

CrcInit ==
    /\ EngineInit
    /\ options = NoOptions
    /\ encoded = NotEncoded
    /\ ServiceInit
    /\ PollInit
    /\ \E data \in CrcInputs : crcRun = crcStart(data)

CrcFrame ==
    UNCHANGED <<isRunning, activeMonitors, userSessions, paymentQueue, objs, calls, loops,
                emitted, now, lastError, lastOp, ops, options, encoded,
                activeTransactions, transactionHistory, creating, request, rejection,
                pollVars>>

\* crc ^= (data.charCodeAt(i) << 8), and the inner loop starts.
crcNextChar ==
    /\ crcRun.hex = <<>>
    /\ crcRun.j = 8
    /\ crcRun.i < Len(crcRun.data)
    /\ crcRun' = [crcRun EXCEPT
                     !.crc = BitXor(@, charCodeAt(crcRun.data[crcRun.i + 1]) * 256),
                     !.i = @ + 1,
                     !.j = 0]
    /\ CrcFrame

\* One round of the inner loop: shift, conditional XOR, mask.
crcRound ==
    /\ crcRun.j < 8
    /\ crcRun' = [crcRun EXCEPT !.crc = crcRounds(@, 1), !.j = @ + 1]
    /\ CrcFrame

\* return crc.toString(16).toUpperCase().padStart(4, '0').
crcReturn ==
    /\ crcRun.hex = <<>>
    /\ crcRun.j = 8
    /\ crcRun.i = Len(crcRun.data)
    /\ crcRun' = [crcRun EXCEPT !.hex = padStart(ToHex(crcRun.crc), 4, "0")]
    /\ CrcFrame

CrcNext == crcNextChar \/ crcRound \/ crcReturn

CrcSpec == CrcInit /\ [][CrcNext]_vars

\* The reference CRC-16/CCITT-FALSE, bit by bit: the register starts at 0xFFFF; for
\* each bit of the message, most significant bit of each byte first, the register is
\* shifted left by one in 16 bits and the polynomial 0x1021 (bits 12, 5 and 0) is
\* added when the bit shifted out differs from the message bit; nothing is reflected
\* and nothing is added at the end.
FlipBit(x, k) == IF (x \div (2 ^ k)) % 2 = 1 THEN x - 2 ^ k ELSE x + 2 ^ k

ReferenceStep(reg, bit) ==
    LET out == reg \div 32768
        shifted == (reg % 32768) * 2
    IN IF out # bit THEN FlipBit(FlipBit(FlipBit(shifted, 12), 5), 0) ELSE shifted

MessageBit(data, k) ==
    (charCodeAt(data[((k - 1) \div 8) + 1]) \div (2 ^ (7 - ((k - 1) % 8)))) % 2

\* The register after the message bits lo..hi, from the register reg before them.
RECURSIVE ReferenceRegister(_, _, _, _)
ReferenceRegister(reg, data, lo, hi) ==
    IF lo > hi THEN reg
    ELSE IF lo = hi THEN ReferenceStep(reg, MessageBit(data, lo))
    ELSE LET mid == (lo + hi) \div 2
             left == ReferenceRegister(reg, data, lo, mid)
         IN IF left >= 0 THEN ReferenceRegister(left, data, mid + 1, hi) ELSE left

ReferenceCRC16(data) ==
    LET reg == ReferenceRegister(65535, data, 1, 8 * Len(data))
    IN [d \in 1..4 |-> HexChars[((reg \div (16 ^ (4 - d))) % 16) + 1]]

\* C23: the register of generateCRC16 is within 0..0xFFFF after every round, and what
\* it returns is the reference CRC-16/CCITT-FALSE of its input: exactly four
\* characters, each a digit or an uppercase letter A..F, zero-padded.
C23_MatchesReferenceCRC ==
    /\ crcRun.crc \in 0..65535
    /\ crcRun.hex # <<>> =>
          /\ crcRun.hex = ReferenceCRC16(crcRun.data)
          /\ crcRun.hex = generateCRC16(crcRun.data)
          /\ Len(crcRun.hex) = 4
          /\ \A d \in 1..4 : \E h \in DOMAIN HexChars : crcRun.hex[d] = HexChars[h]

\* A call returned a checksum that needed a zero in front and has a letter in it.
C23_Witness ==
    /\ crcRun.hex # <<>>
    /\ Len(crcRun.data) = MaxCrcLen
    /\ crcRun.crc < 4096
    /\ crcRun.hex[1] = "0"
    /\ \E d \in 2..4 : crcRun.hex[d] \in {"A", "B", "C", "D", "E", "F"}

----------------------------------------------------------------------------
(***************************************************************************)
(* The payment service (PaymentService in src/unnamed/part_001) in front   *)
(* of the codec and the monitor.  createPayment runs to its first await in *)
(* one step and from its awaits to its end in another.                     *)
(***************************************************************************)

\* The createPayment calls the environment makes.
MaxCreates == 2

\* process.env: the merchant's account, name, city and phone number.
Env ==
    [BAKONG_MERCHANT_ID |-> Text(ShortLen), DEFAULT_MERCHANT_NAME |-> Text(ShortLen),
     DEFAULT_MERCHANT_CITY |-> Text(ShortLen), BAKONG_PHONE_NUMBER |-> Text(ShortLen)]

\* A property paymentData does not have, or has as the empty string: falsy.  A
\* label is a sequence of characters; a currency or a session is one of few names.
NoValue == <<>>

NoName == ""

\* The amounts of paymentData: a number (its integer digits and its cents) or a string.
GoodAmount == [type |-> "number", whole |-> <<"1">>, cents |-> 50]

LongAmount ==
    [type |-> "number",
     whole |-> <<"1">> \o Repeat("0", INVALID_LENGTH_TRANSACTION_AMOUNT - 2),
     cents |-> 50]

ZeroAmount == [type |-> "number", whole |-> <<"0">>, cents |-> 0]

NoAmount == [type |-> "undefined", whole |-> <<"0">>, cents |-> 0]

StringAmount == [type |-> "string", whole |-> <<"1">>, cents |-> 50]

\* paymentData that createPayment accepts, static and dynamic, with and without a
\* session.
ValidPayments ==
    {[amount |-> GoodAmount, currency |-> "USD", billNumber |-> Text(ShortLen),
      storeLabel |-> Text(ShortLen), terminalLabel |-> Text(ShortLen),
      merchantName |-> NoValue, merchantCity |-> NoValue, isStatic |-> static,
      sessionId |-> session] :
        static \in BOOLEAN, session \in {NoName, "s1"}}

\* The same with one property changed: missing, of the wrong type, out of the
\* vocabulary or one character over its ceiling.
PaymentDataSet ==
    ValidPayments
    \cup {[pd EXCEPT !.amount = a] : pd \in ValidPayments,
                                     a \in {LongAmount, ZeroAmount, NoAmount, StringAmount}}
    \cup {[pd EXCEPT !.currency = c] : pd \in ValidPayments, c \in {"EUR", NoName}}
    \cup {[pd EXCEPT !.billNumber = b] :
             pd \in ValidPayments, b \in {NoValue, Text(INVALID_LENGTH_BILL_NUMBER + 1)}}
    \cup {[pd EXCEPT !.storeLabel = b] :
             pd \in ValidPayments, b \in {NoValue, Text(INVALID_LENGTH_STORE_LABEL + 1)}}
    \cup {[pd EXCEPT !.terminalLabel = b] :
             pd \in ValidPayments, b \in {NoValue, Text(INVALID_LENGTH_TERMINAL_LABEL + 1)}}
    \cup {[pd EXCEPT !.merchantName = Text(INVALID_LENGTH_MERCHANT_NAME + 1)] :
             pd \in ValidPayments}
    \cup {[pd EXCEPT !.merchantCity = Text(INVALID_LENGTH_MERCHANT_CITY + 1)] :
             pd \in ValidPayments}

\* !data[field]: undefined, the empty string and the number 0 are falsy.
Falsy(data, field) ==
    IF field = "amount" THEN data.amount \in {NoAmount, ZeroAmount}
    ELSE IF field = "currency" THEN data.currency = NoName
    ELSE data[field] = NoValue

\* validatePaymentData(data): the error it throws, NoRejection if none.  The required
\* fields are tested in the order of the array.
validatePaymentData(data) ==
    LET required == <<"amount", "currency", "billNumber", "storeLabel", "terminalLabel">>
        missing == {i \in DOMAIN required : Falsy(data, required[i])}
    IN IF missing # {}
       THEN [message |-> "Missing required field", field |-> required[Min(missing)]]
       ELSE IF data.amount.type # "number"
       THEN [message |-> "Amount must be a positive number"]
       ELSE IF data.currency \notin {"USD", "KHR"}
       THEN [message |-> "Currency must be USD or KHR"]
       ELSE NoRejection

\* A reading mixed with the number of calls made so far, so that no two calls read
\* the same clock.
ClockAt_Salted(t) == SubSeq(Clock, 1, Len(Clock) - 1) \o ToDecimal(t + ops)

\* Date.now().toString() at time t: thirteen digits.
ClockAt(t) == SubSeq(Clock, 1, Len(Clock) - 1) \o ToDecimal(t)

\* The options createPayment gives to createQR at time t.
qrOptions(paymentData, t) ==
    [bankAccount |-> Env.BAKONG_MERCHANT_ID,
     merchantName |-> IF paymentData.merchantName # NoValue THEN paymentData.merchantName
                      ELSE Env.DEFAULT_MERCHANT_NAME,
     merchantCity |-> IF paymentData.merchantCity # NoValue THEN paymentData.merchantCity
                      ELSE Env.DEFAULT_MERCHANT_CITY,
     amount |-> paymentData.amount,
     currency |-> paymentData.currency,
     storeLabel |-> paymentData.storeLabel,
     phoneNumber |-> Env.BAKONG_PHONE_NUMBER,
     billNumber |-> paymentData.billNumber,
     terminalLabel |-> paymentData.terminalLabel,
     isStatic |-> paymentData.isStatic,
     timestampMs |-> ClockAt(t)]

\* generateMD5(qr): node's md5 is not computed; the digest is written as the string
\* it digests behind a mark, so equal strings have equal digests and different
\* strings different ones.
generateMD5(qr) == <<"m", "d", "5">> \o qr

\* uuidv4(): an identifier no other call has, here the number of the API call.
uuidv4 == ops + 1

\* The catch block of createPayment logs the error and throws it again: the promise
\* rejects with it and nothing else has happened.
createPaymentRejects(error) ==
    /\ rejection' = error
    /\ UNCHANGED <<activeTransactions, transactionHistory, creating>>

\* Mutant: the transaction is stored before the QR string is generated.
createPaymentBegin_StoresFirst(paymentData) ==
    /\ ApiCall("createPayment")
    /\ ops < MaxCreates
    /\ request' = paymentData
    /\ LET error == validatePaymentData(paymentData)
           qrCode == createQR(qrOptions(paymentData, now))
       IN IF error # NoRejection
          THEN createPaymentRejects(error)
          ELSE IF ~qrCode.ok
          THEN /\ rejection' = qrCode.error
               /\ activeTransactions' =
                      MapSet(activeTransactions, uuidv4, [status |-> "PENDING"])
               /\ UNCHANGED <<transactionHistory, creating>>
          ELSE /\ rejection' = NoRejection
               /\ creating' = creating \cup {[transactionId |-> uuidv4,
                                              startTime |-> now,
                                              qrCode |-> qrCode.str,
                                              md5Hash |-> generateMD5(qrCode.str),
                                              paymentData |-> paymentData]}
               /\ UNCHANGED <<activeTransactions, transactionHistory>>
    /\ InstallMonitor(State)
    /\ lastError' = "none"
    /\ UNCHANGED <<isRunning, loops, now, options, encoded, crcRun, pollVars>>

\* createPayment(paymentData) up to its first await (fs.mkdir): validation, the QR
\* string and its digest.  A throw of validatePaymentData or createQR ends the call.
createPaymentBegin(paymentData) ==
    /\ ApiCall("createPayment")
    /\ ops < MaxCreates
    /\ request' = paymentData
    /\ LET error == validatePaymentData(paymentData)
           qrCode == createQR(qrOptions(paymentData, now))
       IN IF error # NoRejection
          THEN createPaymentRejects(error)
          ELSE IF ~qrCode.ok
          THEN createPaymentRejects(qrCode.error)
          ELSE /\ rejection' = NoRejection
               /\ creating' = creating \cup {[transactionId |-> uuidv4,
                                              startTime |-> now,
                                              qrCode |-> qrCode.str,
                                              md5Hash |-> generateMD5(qrCode.str),
                                              paymentData |-> paymentData]}
               /\ UNCHANGED <<activeTransactions, transactionHistory>>
    /\ InstallMonitor(State)
    /\ lastError' = "none"
    /\ UNCHANGED <<isRunning, loops, now, options, encoded, crcRun, pollVars>>

\* createPayment from its awaits on: the image and the deep link came or failed (a
\* failure leaves null), the result is stored and the monitor is given the payment.
createPaymentFinish(call, imagePath, deepLink) ==
    /\ call \in creating
    /\ LET result == [transactionId |-> call.transactionId, qrCode |-> call.qrCode,
                      md5Hash |-> call.md5Hash, imagePath |-> imagePath,
                      deepLink |-> deepLink, createdAt |-> now, status |-> "PENDING",
                      paymentData |-> call.paymentData]
           sessionId == IF call.paymentData.sessionId # NoName
                        THEN call.paymentData.sessionId ELSE "anonymous"
       IN /\ activeTransactions' = MapSet(activeTransactions, call.transactionId, result)
          /\ transactionHistory' = Append(transactionHistory, result)
          /\ InstallMonitor(addPaymentState(State, call.md5Hash, sessionId, now))
    /\ creating' = creating \ {call}
    /\ request' = NoRequest
    /\ rejection' = NoRejection
    /\ lastError' = "none"
    /\ lastOp' = "none"
    /\ UNCHANGED <<isRunning, loops, now, ops, options, encoded, crcRun, pollVars>>

ServiceNext ==
    \/ \E paymentData \in PaymentDataSet : createPaymentBegin(paymentData)
    \/ \E call \in creating, imagePath \in {"null", "path"}, deepLink \in {"null", "link"} :
          createPaymentFinish(call, imagePath, deepLink)

ServiceSpec == Init /\ [][ServiceNext]_vars

----------------------------------------------------------------------------
\* Claims about the payment service.

\* The error createPayment(paymentData) meets at time t before it stores anything:
\* that of validatePaymentData, else that of createQR, else none.
encodeFailure(paymentData, t) ==
    LET error == validatePaymentData(paymentData)
        qrCode == createQR(qrOptions(paymentData, t))
    IN IF error # NoRejection THEN error
       ELSE IF ~qrCode.ok THEN qrCode.error
       ELSE NoRejection

\* C21: when validatePaymentData or createQR throws, createPayment rejects with that
\* error in the step of the call, and nothing of the payment is produced or stored:
\* activeTransactions, transactionHistory and the monitor's registry are unchanged and
\* no call is left at its awaits.
C21_EncodeFailureIsTotal ==
    [][(request' # NoRequest /\ encodeFailure(request', now) # NoRejection) =>
          /\ rejection' = encodeFailure(request', now)
          /\ activeTransactions' = activeTransactions
          /\ transactionHistory' = transactionHistory
          /\ creating' = creating
          /\ activeMonitors' = activeMonitors
          /\ userSessions' = userSessions
          /\ paymentQueue' = paymentQueue
          /\ objs' = objs
          /\ emitted' = <<>>]_vars

\* A payment is stored and monitored, and a second call was refused for its bill
\* number of 26 characters.
C21_Witness ==
    /\ lastOp = "createPayment"
    /\ request # NoRequest
    /\ rejection = [field |-> "Bill number", maxLength |-> INVALID_LENGTH_BILL_NUMBER,
                    actual |-> INVALID_LENGTH_BILL_NUMBER + 1]
    /\ Len(transactionHistory) = 1
    /\ Len(activeMonitors) = 1

\* ---------------------------------------------------------------------------
\* Repeated encodings: createPayment called several times, with the clock moving
\* between the calls, on requests that createPayment accepts and that differ in
\* isStatic or in the currency.
\* ---------------------------------------------------------------------------
RepeatedPayments ==
    LET anonymous == {pd \in ValidPayments : pd.sessionId = NoName}
    IN anonymous \cup {[pd EXCEPT !.currency = "KHR"] : pd \in {q \in anonymous : ~q.isStatic}}

RepeatNext ==
    \/ \E paymentData \in RepeatedPayments : createPaymentBegin(paymentData)
    \/ \E call \in creating : createPaymentFinish(call, "path", "link")
    \/ advanceClock

RepeatSpec == Init /\ [][RepeatNext]_vars

\* The fields of the payload a createPayment call has encoded, from the parameters
\* and the clock reading of the call.
callFields(call) == qrFields(qrOptions(call.paymentData, call.startTime), call.qrCode)

----------------------------------------------------------------------------
(***************************************************************************)
(* The monitor again: the ticks of the periodic loop, start and stop, and  *)
(* the outcome of a check.                                                 *)
(***************************************************************************)

\* The checks the step has issued for F on behalf of loop l, and the payment_expired
\* events it has emitted for F (a checkSinglePayment call on an entry past its
\* deadline expires it before it reaches the checker).
IssuedBy(l, F) ==
    {c \in DOMAIN calls' : /\ calls'[c] # NoCall
                           /\ calls'[c].loop = l
                           /\ calls'[c].md5Hash = F}

ExpiredInStep(F) ==
    {i \in DOMAIN emitted' : /\ emitted'[i].type = "payment_expired"
                             /\ emitted'[i].md5Hash = F}

\* C26: a tick issues exactly one check for each entry that is registered when the
\* tick starts, on the monitorInfo registered then, and none for any other
\* fingerprint; a check of a loop is issued only by the step in which the timer of
\* that loop fires, so an entry registered while the checks of a tick are in flight
\* is not checked by that tick and is checked by the following one.
C26_TickChecksRegisteredEntries ==
    [][/\ \A l \in DOMAIN loops :
            (checkAllPaymentsTimer(l) /\ isRunning) =>
                \A F \in Hashes :
                    IF MapHas(activeMonitors, F)
                    THEN /\ Cardinality(IssuedBy(l, F)) + Cardinality(ExpiredInStep(F)) = 1
                         /\ \A c \in IssuedBy(l, F) : calls'[c].obj = MapGet(activeMonitors, F)
                    ELSE IssuedBy(l, F) = {} /\ ExpiredInStep(F) = {}
       /\ \A c \in DOMAIN calls :
            (calls'[c] # NoCall /\ calls'[c] # calls[c] /\ calls'[c].loop # 0) =>
                /\ loops[calls'[c].loop] = "timer"
                /\ isRunning
                /\ MapHas(activeMonitors, calls'[c].md5Hash)]_vars

\* A tick has issued the second check of one entry together with the first check of
\* another: the second entry was registered while the checks of the tick before were
\* in flight.
C26_Witness ==
    \E l \in DOMAIN loops : \E F \in Hashes : \E G \in Hashes :
        /\ G # F
        /\ loops[l] = "awaiting"
        /\ \E c \in Outstanding(calls, l) : calls[c].md5Hash = F /\ calls[c].n = 2
        /\ \E c \in Outstanding(calls, l) : calls[c].md5Hash = G /\ calls[c].n = 1

\* The session whose set removePayment(F) works on: the sessionId of the monitorInfo
\* registered under F, that of the checked monitorInfo o when F is not registered.
OwnerOf(F, o) ==
    IF MapHas(activeMonitors, F) THEN objs[MapGet(activeMonitors, F)].sessionId
    ELSE objs[o].sessionId

\* The sessions of the index that hold fingerprint G.
SessionsOf(us, G) == {S \in DOMAIN us : G \in us[S]}

\* C27: the step that applies the outcome of a check of fingerprint F, issued by a
\* tick or by a force-check, changes only F's entry, F's paymentQueue slot and the
\* session set of F's owner: every other fingerprint keeps its registration, its
\* monitorInfo with status, checkCount, lastCheck and startTime, its paymentQueue
\* slot and its place in the session index, and every other session keeps its set.
C27_OutcomeTouchesOnlyItsEntry ==
    [][\A c \in DOMAIN calls :
          (calls[c] # NoCall /\ calls'[c] = NoCall) =>
              LET F == calls[c].md5Hash
                  owner == OwnerOf(F, calls[c].obj)
              IN /\ \A G \in Hashes \ {F} :
                       /\ MapHas(activeMonitors', G) = MapHas(activeMonitors, G)
                       /\ MapHas(activeMonitors, G) =>
                            /\ MapGet(activeMonitors', G) = MapGet(activeMonitors, G)
                            /\ objs'[MapGet(activeMonitors, G)] = objs[MapGet(activeMonitors, G)]
                       /\ (G \in DOMAIN paymentQueue') = (G \in DOMAIN paymentQueue)
                       /\ G \in DOMAIN paymentQueue => paymentQueue'[G] = paymentQueue[G]
                       /\ SessionsOf(userSessions', G) = SessionsOf(userSessions, G)
                 /\ \A S \in Sessions \ {owner} :
                       /\ (S \in DOMAIN userSessions') = (S \in DOMAIN userSessions)
                       /\ S \in DOMAIN userSessions => userSessions'[S] = userSessions[S]]_vars

\* The outcome PAID of a check of one entry has been applied while another entry of
\* the same session is registered.
C27_Witness ==
    \E F \in Hashes : \E G \in Hashes \ {F} :
        /\ ~Registered(F)
        /\ Registered(G)
        /\ G \in DOMAIN paymentQueue
        /\ \E i \in DOMAIN emitted :
              /\ emitted[i].type = "payment_success"
              /\ emitted[i].md5Hash = F
              /\ objs[emitted[i].obj].sessionId = objs[Entry(G)].sessionId

\* The periodic check loops that are alive: a pending checkAllPayments timer, or a
\* tick awaiting its checks that will set the next timer.
AliveLoops == {l \in DOMAIN loops : loops[l] # "free"}

\* C28: after any sequence of start() and stop() calls at most one periodic check
\* loop is alive: start() while running is a no-op, and a stop() followed by start()
\* never leaves two loops ticking.
C28_AtMostOneLoop == Cardinality(AliveLoops) <= 1

\* The StatusChecker calls the step has initiated on behalf of a periodic loop.
InitiatedByLoop ==
    {c \in DOMAIN calls : /\ calls'[c] # NoCall
                          /\ calls'[c] # calls[c]
                          /\ calls'[c].loop # 0}

\* C29: when stop() returns, activeMonitors, userSessions and paymentQueue are empty
\* and the monitor is not running; from then until start() is called again no step
\* initiates a StatusChecker call for a periodic loop, and the checks that were in
\* flight when stop() was called put nothing back into the three Maps.
C29_StopQuiescesLoop ==
    [][/\ lastOp' = "stop" =>
            /\ ~isRunning'
            /\ activeMonitors' = <<>>
            /\ userSessions' = <<>>
            /\ paymentQueue' = <<>>
       /\ ~isRunning => InitiatedByLoop = {}
       /\ (~isRunning /\ lastOp' = "none" /\ activeMonitors = <<>>) =>
            /\ activeMonitors' = <<>>
            /\ userSessions' = userSessions
            /\ paymentQueue' = paymentQueue]_vars

\* stop() was called while the checks of a tick were in flight; the checker has
\* answered since, the loop has set its next timer and the Maps are empty.
C29_Witness ==
    /\ ~isRunning
    /\ \E l \in DOMAIN loops : loops[l] = "timer"
    /\ \A c \in DOMAIN calls : calls[c] = NoCall
    /\ \E i \in DOMAIN emitted : emitted[i].type = "payment_success" /\ emitted[i].origin = "tick"
    /\ activeMonitors = <<>>
    /\ userSessions = <<>>
    /\ paymentQueue = <<>>

\* C30: a payment_success or payment_expired event is emitted for fingerprint F only
\* by a step that finds F registered: no event is emitted for an entry that was
\* removed by removePayment, by stop() or by another check while its own check was
\* in flight.
C30_EventOnlyForRegistered ==
    [][\A i \in DOMAIN emitted' :
          Terminal(emitted'[i]) => MapHas(activeMonitors, emitted'[i].md5Hash)]_vars

\* C31: a check result is applied only to the registration for which the check was
\* issued: when the check that returns was issued for a monitorInfo other than the
\* one registered under F now (F was removed and registered again, or registered
\* again by addPayment, while the check was in flight), the step neither removes nor
\* modifies the registration of F.
C31_ResultOnlyForItsRegistration ==
    [][\A c \in DOMAIN calls :
          (/\ calls[c] # NoCall
           /\ calls'[c] = NoCall
           /\ MapHas(activeMonitors, calls[c].md5Hash)
           /\ MapGet(activeMonitors, calls[c].md5Hash) # calls[c].obj) =>
              LET F == calls[c].md5Hash
                  o == MapGet(activeMonitors, F)
              IN /\ MapHas(activeMonitors', F)
                 /\ MapGet(activeMonitors', F) = o
                 /\ objs'[o] = objs[o]
                 /\ F \in DOMAIN paymentQueue']_vars

\* The StatusChecker calls the step has initiated for the monitorInfo o.
InitiatedFor(o) ==
    {c \in DOMAIN calls : calls[c] = NoCall /\ calls'[c] # NoCall /\ calls'[c].obj = o}

\* C32: for every registered entry, checkCount is the number of StatusChecker calls
\* initiated for it since its registration, by ticks and by force-checks, calls that
\* threw included: it is 0 when the entry is registered, each step adds to it the
\* number of calls the step initiates for the entry, so it never decreases, and
\* lastCheck is never earlier than startTime.
C32_CheckCountCountsCalls ==
    [][\A F \in Hashes :
          MapHas(activeMonitors', F) =>
              LET o == MapGet(activeMonitors', F)
              IN /\ objs'[o].lastCheck >= objs'[o].startTime
                 /\ IF MapHas(activeMonitors, F) /\ MapGet(activeMonitors, F) = o
                    THEN /\ objs'[o].checkCount
                              = objs[o].checkCount + Cardinality(InitiatedFor(o))
                         /\ objs'[o].checkCount >= objs[o].checkCount
                         /\ objs'[o].startTime = objs[o].startTime
                    ELSE /\ objs'[o].checkCount = 0
                         /\ InitiatedFor(o) = {}]_vars

\* An entry has been checked twice, the first call threw, and the second call, made
\* later than the registration, is in flight.
C32_Witness ==
    \E F \in Hashes :
        /\ Registered(F)
        /\ objs[Entry(F)].checkCount = 2
        /\ objs[Entry(F)].lastCheck > objs[Entry(F)].startTime
        /\ objs[Entry(F)].status = "MONITORING"
        /\ Cardinality(CallsOf(calls, Entry(F))) = 1

\* getUserCount(): the distinct sessionId values of the registered monitorInfos.
getUserCount == Cardinality({objs[activeMonitors[i].val].sessionId : i \in DOMAIN activeMonitors})

\* getMonitoringStatus().totalSessions: this.userSessions.size.
totalSessions == Cardinality(DOMAIN userSessions)

\* C33: the two public session counts agree in every reachable state:
\* getUserCount() equals getMonitoringStatus().totalSessions.
C33_SessionCountsAgree == getUserCount = totalSessions

----------------------------------------------------------------------------
(***************************************************************************)
(* PaymentMonitor (src/payment-monitor.js): monitorPayment polls           *)
(* checkPaymentStatus from a setInterval callback, every 5 seconds, and    *)
(* sets a timer of 10 minutes.  The callback does not wait for the check   *)
(* of the callback before it, so several checks of a call can be in        *)
(* flight.                                                                 *)
(***************************************************************************)

\* The variables of the server process, which PaymentMonitor leaves alone.
serverVars ==
    <<isRunning, activeMonitors, userSessions, paymentQueue, objs, calls, loops, emitted,
      now, lastError, lastOp, ops, options, encoded, activeTransactions,
      transactionHistory, creating, request, rejection, crcRun>>

\* monitorPayment(md5Hash): the hash joins the Set, the interval and the timer are set.
PaymentMonitor_monitorPayment(md5Hash) ==
    /\ \E w \in DOMAIN watches : watches[w] = NoWatch
    /\ LET w == Min({x \in DOMAIN watches : watches[x] = NoWatch})
       IN watches' = [watches EXCEPT ![w] = [md5Hash |-> md5Hash, checkInterval |-> "set",
                                             timer |-> "pending", pending |-> 0]]
    /\ monitoredPayments' = monitoredPayments \cup {md5Hash}
    /\ UNCHANGED <<serverVars, polls>>

\* The interval callback of call w up to its await: checkPaymentStatus is called.
watchIntervalCallback(w) ==
    /\ watches[w].checkInterval = "set"
    /\ watches[w].pending < MaxPending
    /\ watches' = [watches EXCEPT ![w].pending = @ + 1]
    /\ UNCHANGED <<serverVars, monitoredPayments, polls>>

\* A check of call w returns res, or throws: on PAID the interval of the call is
\* cleared and the hash leaves the Set; the catch block only logs.
watchCheckReturns(w, res) ==
    /\ watches[w].pending > 0
    /\ IF res = "PAID"
       THEN /\ watches' = [watches EXCEPT ![w].pending = @ - 1,
                                          ![w].checkInterval = "cleared"]
            /\ monitoredPayments' = monitoredPayments \ {watches[w].md5Hash}
       ELSE /\ watches' = [watches EXCEPT ![w].pending = @ - 1]
            /\ UNCHANGED monitoredPayments
    /\ UNCHANGED <<serverVars, polls>>

\* The 10-minute timer of call w fires: the interval is cleared if the Set still
\* holds the hash.
watchTimeout(w) ==
    /\ watches[w].timer = "pending"
    /\ IF watches[w].md5Hash \in monitoredPayments
       THEN /\ watches' = [watches EXCEPT ![w].timer = "fired",
                                          ![w].checkInterval = "cleared"]
            /\ monitoredPayments' = monitoredPayments \ {watches[w].md5Hash}
       ELSE /\ watches' = [watches EXCEPT ![w].timer = "fired"]
            /\ UNCHANGED monitoredPayments
    /\ UNCHANGED <<serverVars, polls>>

WatchNext ==
    \/ \E md5Hash \in Hashes : PaymentMonitor_monitorPayment(md5Hash)
    \/ \E w \in DOMAIN watches : watchIntervalCallback(w)
    \/ \E w \in DOMAIN watches, res \in CheckerOutcomes : watchCheckReturns(w, res)
    \/ \E w \in DOMAIN watches : watchTimeout(w)

WatchSpec == Init /\ [][WatchNext]_vars

\* C34: the polling interval of every monitorPayment call is cleared at the latest
\* when the 10-minute timer of the call fires, for any number of calls on the same
\* or on different hashes.
C34_IntervalClearedByTimer ==
    \A w \in DOMAIN watches :
        watches[w].timer = "fired" => watches[w].checkInterval = "cleared"

----------------------------------------------------------------------------
(***************************************************************************)
(* PaymentService.monitorPayment (src/unnamed/part_001): a promise that a  *)
(* setInterval callback settles.  The callback does not wait for the check *)
(* of the callback before it.                                              *)
(***************************************************************************)

\* The timeout option of the calls, in clock units.
PollTimeouts == {0, 1}

Settled == {"PAID", "TIMEOUT", "rejected"}

\* resolve and reject settle a pending promise and leave a settled one as it is.
settle(promise, outcome) == IF promise = "pending" THEN outcome ELSE promise

\* monitorPayment(identifier, {timeout}): startTime is read, the promise is created
\* and the interval is set.  The clock of the model stops at MaxTime, so calls are
\* made only while it leaves room for their timeout.
PaymentService_monitorPayment(identifier, timeout) ==
    /\ now + timeout < MaxTime
    /\ \E p \in DOMAIN polls : polls[p] = NoPoll
    /\ LET p == Min({x \in DOMAIN polls : polls[x] = NoPoll})
       IN polls' = [polls EXCEPT ![p] = [identifier |-> identifier, timeout |-> timeout,
                                         startTime |-> now, checkInterval |-> "set",
                                         promise |-> "pending", pending |-> 0,
                                         late |-> 0]]
    /\ UNCHANGED <<serverVars, monitoredPayments, watches>>

\* The interval callback of call p up to its await: past the timeout it clears the
\* interval and resolves with TIMEOUT, else it calls checkPaymentStatus.
pollIntervalCallback(p) ==
    /\ polls[p].checkInterval = "set"
    /\ IF now - polls[p].startTime > polls[p].timeout
       THEN polls' = [polls EXCEPT ![p].checkInterval = "cleared",
                                   ![p].promise = settle(@, "TIMEOUT")]
       ELSE /\ polls[p].pending < MaxPending
            /\ polls' = [polls EXCEPT ![p].pending = @ + 1,
                                      ![p].late = IF polls[p].promise = "pending"
                                                  THEN @ ELSE @ + 1]
    /\ UNCHANGED <<serverVars, monitoredPayments, watches>>

\* Mutant: the catch block rejects without clearing the interval.
pollCheckReturns_KeepsPolling(p, res) ==
    /\ polls[p].pending > 0
    /\ polls' = [polls EXCEPT
                    ![p].pending = @ - 1,
                    ![p].checkInterval = IF res = "PAID" THEN "cleared" ELSE @,
                    ![p].promise = IF res = "PAID" THEN settle(@, "PAID")
                                   ELSE IF res = "threw" THEN settle(@, "rejected")
                                   ELSE @]
    /\ UNCHANGED <<serverVars, monitoredPayments, watches>>

\* A check of call p returns res, or throws: PAID clears the interval and resolves,
\* an error clears the interval and rejects, any other status only logs.
pollCheckReturns(p, res) ==
    /\ polls[p].pending > 0
    /\ polls' = [polls EXCEPT
                    ![p].pending = @ - 1,
                    ![p].checkInterval = IF res \in {"PAID", "threw"} THEN "cleared" ELSE @,
                    ![p].promise = IF res = "PAID" THEN settle(@, "PAID")
                                   ELSE IF res = "threw" THEN settle(@, "rejected")
                                   ELSE @]
    /\ UNCHANGED <<serverVars, monitoredPayments, watches>>

PollNext ==
    \/ \E identifier \in Hashes, timeout \in PollTimeouts :
          PaymentService_monitorPayment(identifier, timeout)
    \/ \E p \in DOMAIN polls : pollIntervalCallback(p)
    \/ \E p \in DOMAIN polls, res \in CheckerOutcomes : pollCheckReturns(p, res)
    \/ advanceClock

\* Time passes and an interval that is set keeps firing.
PollFairness ==
    /\ WF_vars(advanceClock)
    /\ \A p \in 1..MaxPolls : WF_vars(pollIntervalCallback(p))

PollSpec == Init /\ [][PollNext]_vars /\ PollFairness

\* C35: the promise returned by PaymentService.monitorPayment always settles.  It
\* resolves with the PAID result when a check returns PAID, resolves with TIMEOUT at
\* the first interval callback after elapsed exceeds the timeout, or rejects when a
\* check throws, whichever comes first; a settled promise keeps its outcome; on each
\* path the interval is cleared, so no checkPaymentStatus call is initiated after the
\* promise has settled.
C35_PromiseSettles ==
    /\ [](\A p \in DOMAIN polls :
             polls[p].promise \in Settled =>
                 polls[p].checkInterval = "cleared" /\ polls[p].late = 0)
    /\ [][\A p \in DOMAIN polls :
             /\ polls[p].promise \in Settled =>
                    /\ polls'[p].promise = polls[p].promise
                    /\ polls'[p].pending <= polls[p].pending
             /\ (polls[p].promise = "pending" /\ polls'[p].promise # "pending") =>
                    \/ /\ polls'[p].promise = "TIMEOUT"
                       /\ now - polls[p].startTime > polls[p].timeout
                       /\ polls'[p].pending = polls[p].pending
                    \/ /\ polls'[p].promise \in {"PAID", "rejected"}
                       /\ polls'[p].pending = polls[p].pending - 1
             /\ (/\ polls[p].promise = "pending"
                 /\ polls[p].checkInterval = "set"
                 /\ now - polls[p].startTime > polls[p].timeout
                 /\ polls'[p].checkInterval # "set") =>
                    polls'[p].promise \in Settled]_vars
    /\ \A p \in 1..MaxPolls :
          (polls[p].promise = "pending") ~> (polls[p].promise \in Settled)

\* One promise has resolved with TIMEOUT, the other has rejected while another check
\* of its call was still in flight.
C35_Witness ==
    \E p \in DOMAIN polls : \E q \in DOMAIN polls :
        /\ polls[p].promise = "TIMEOUT"
        /\ polls[q].promise = "rejected"
        /\ polls[q].pending > 0

----------------------------------------------------------------------------
\* The limits getTransactionHistory is called with.
MaxLimit == 3

\* Array.prototype.slice(begin): a negative begin counts from the end, and -0 is 0.
slice(arr, begin) ==
    LET from == IF begin < 0 THEN (IF Len(arr) + begin > 0 THEN Len(arr) + begin ELSE 0)
                ELSE (IF begin < Len(arr) THEN begin ELSE Len(arr))
    IN SubSeq(arr, from + 1, Len(arr))

\* Array.prototype.reverse(), on the copy slice has made.
reverse(arr) == [i \in 1..Len(arr) |-> arr[Len(arr) - i + 1]]

\* getTransactionHistory(limit): this.transactionHistory.slice(-limit).reverse().
getTransactionHistory(limit) == reverse(slice(transactionHistory, 0 - limit))

\* The min(limit, length) most recently created transactions, most recent first.
MostRecent(limit) ==
    LET n == IF limit < Len(transactionHistory) THEN limit ELSE Len(transactionHistory)
    IN [i \in 1..n |-> transactionHistory[Len(transactionHistory) - i + 1]]

\* C36: for every limit >= 0 and every history length, getTransactionHistory(limit)
\* returns exactly the min(limit, length) most recently created transactions, most
\* recent first.
C36_HistoryReturnsMostRecent ==
    \A limit \in 0..MaxLimit : getTransactionHistory(limit) = MostRecent(limit)

----------------------------------------------------------------------------
\* A property of the AutoPaymentMonitor object that is read by name: isRunning is the
\* flag the constructor, start() and stop() assign; a name that nothing assigns reads
\* as undefined (defined is FALSE).
Undefined == [defined |-> FALSE, value |-> FALSE]

monitorProperty(name) ==
    IF name = "isRunning" THEN [defined |-> TRUE, value |-> isRunning] ELSE Undefined

\* The status object GET /monitor/status builds.
monitorStatus ==
    [active |-> monitorProperty("isActive"),
     userCount |-> getUserCount,
     totalPayments |-> getTotalPayments,
     completedPayments |-> getCompletedPayments,
     pendingPayments |-> getPendingPayments]

\* C37: the active field reported by GET /monitor/status is true exactly when the
\* monitor is running (start() was called and stop() was not called since), and
\* false otherwise.
C37_ActiveReportsRunning ==
    (monitorStatus.active.defined /\ monitorStatus.active.value) <=> isRunning

----------------------------------------------------------------------------
(***************************************************************************)
(* The server (src/unnamed/part_004): the PaymentService and the           *)
(* AutoPaymentMonitor wired together.  createPayment hands every payment   *)
(* to the monitor, whose StatusChecker is the PaymentService.              *)
(***************************************************************************)

\* The payments the clients create: accepted ones of the anonymous session.
MonitoredPayments == {pd \in ValidPayments : pd.sessionId = NoName}

\* The identifiers of the stored transactions: their ids and their digests.
Identifiers ==
    {TransactionId(activeTransactions[i].key) : i \in DOMAIN activeTransactions}
        \cup {Md5Hash(activeTransactions[i].val.md5Hash) : i \in DOMAIN activeTransactions}

\* paymentService.checkPaymentStatus(identifier) called by a route, from the return
\* of khqr.checkPayment on.  The lookup of the transaction comes before the await; it
\* is made here, as no transaction leaves the Map.
checkPaymentStatusOf(identifier, res) ==
    /\ ApiCall("checkPaymentStatus")
    /\ InstallChecked(State, identifier, res)
    /\ lastError' = IF res = "threw" THEN "Error" ELSE "none"
    /\ UNCHANGED <<isRunning, loops, now>>

ServerNext ==
    \/ \E paymentData \in MonitoredPayments : createPaymentBegin(paymentData)
    \/ \E call \in creating : createPaymentFinish(call, "path", "link")
    \/ start
    \/ \E l \in DOMAIN loops : checkAllPaymentsTimer(l)
    \/ \E i \in DOMAIN activeMonitors : forceCheckPayment(activeMonitors[i].key)
    \/ \E c \in DOMAIN calls, res \in CheckerOutcomes : checkPaymentStatusReturns(c, res)
    \/ \E identifier \in Identifiers, res \in CheckerOutcomes :
          checkPaymentStatusOf(identifier, res)

ServerSpec == Init /\ [][ServerNext]_vars

\* The transactions of activeTransactions that hold the digest F.
TransactionsOf(F) ==
    {i \in DOMAIN activeTransactions : activeTransactions[i].val.md5Hash = F}

\* C38: when the monitor emits payment_success for the digest of a payment created by
\* createPayment, the record of that transaction in activeTransactions has status
\* PAID: getTransaction and getAllTransactions do not report it as PENDING.
C38_ConfirmedTransactionIsPaid ==
    \A e \in DOMAIN emitted :
        emitted[e].type = "payment_success" =>
            \A i \in TransactionsOf(emitted[e].md5Hash) :
                activeTransactions[i].val.status = "PAID"

====
